---- MODULE Spec2Model ----
(***************************************************************************)
(* PayMind: x402 payment authorisation (requirement issuer, proof          *)
(* verifier, resource gateway), the on-chain AgentRegistry / PaymentLedger *)
(* contracts and the backend's two-tier ledger client.                     *)
(*                                                                         *)
(* Amounts are integers in units of 5*10^13 wei (priceQueryCost = 1 unit). *)
(* Strings that the code compares or transforms character by character     *)
(* (addresses) are sequences of characters; other strings are TLA+ strings.*)
(***************************************************************************)
EXTENDS Integers, Sequences, FiniteSets, TLC

(***************************************************************************)
(* Bounds of the model                                                     *)
(***************************************************************************)
\* the wall clock (Date.now()/1000) runs over 1..MaxTime
MaxTime == 3
\* number of HTTP requests the gateway has in flight at once
MaxReqs == 2
\* block.timestamp advances at most MaxChainTicks times, by half a day each
MaxChainTicks == 3
\* type(uint256).max, scaled down
UintMax == 15
\* the longest payments array, and the longest in-memory ledger
MaxPayments == 2
\* the backend's logPayment calls in flight at once
MaxCalls == 2

(***************************************************************************)
(* Addresses                                                               *)
(***************************************************************************)
\* String.prototype.toLowerCase on one character
LowerChar(c) ==
  CASE c = "A" -> "a"
    [] c = "B" -> "b"
    [] c = "C" -> "c"
    [] c = "D" -> "d"
    [] c = "E" -> "e"
    [] c = "F" -> "f"
    [] OTHER -> c

toLowerCase(s) == [i \in DOMAIN s |-> LowerChar(s[i])]

\* the signing keys of the model: the agent's wallet and a foreign wallet
Wallets == {"agent", "mallory"}

\* wallet.address: the EIP-55 checksummed address of a key
walletAddress(w) == IF w = "agent" THEN <<"A", "b">> ELSE <<"c", "D">>

\* ethers.ZeroAddress
ZeroAddress == <<"0", "0">>

\* what signature recovery yields for a signature made over another message:
\* an address unrelated to every wallet of the model
UnrelatedAddress == <<"E", "f">>

\* the ways a client may spell the agent's address in proof.from
FromStrings == {walletAddress("agent"), toLowerCase(walletAddress("agent"))}

\* DATA_PROVIDER = getAgentAddress()
DATA_PROVIDER == walletAddress("agent")

(***************************************************************************)
(* Routes of the gateway: resource and price                               *)
(***************************************************************************)
securityQueryCost == 2
priceQueryCost == 1

Routes ==
  { [resource |-> "/api/x402/security/T", amount |-> securityQueryCost],
    [resource |-> "/api/x402/price/T", amount |-> priceQueryCost] }

Resources == {rt.resource : rt \in Routes}
ProofAmounts == {1, 2}
ProofNonces == {0, 1}
ProofExpiries == {2}

(***************************************************************************)
(* EIP-712 signing and recovery                                            *)
(***************************************************************************)
\* TypedDataEncoder's encoding of an address field: case is normalised
encodeAddress(a) == toLowerCase(a)

\* the typed value {from, to, amount, resource, nonce, expiry} as it is hashed
typedValue(from, to, amount, resource, nonce, expiry) ==
  [from |-> encodeAddress(from), to |-> encodeAddress(to), amount |-> amount,
   resource |-> resource, nonce |-> nonce, expiry |-> expiry]

\* wallet.signTypedData(domain, types, value): a signature binds key and value
signTypedData(w, value) == [signer |-> w, value |-> value]

\* bytes that decode to no signature
Malformed ==
  [signer |-> "none",
   value |-> [from |-> <<>>, to |-> <<>>, amount |-> 0, resource |-> "",
              nonce |-> 0, expiry |-> 0]]

Throw == <<"throw">>

\* ethers.verifyTypedData(domain, types, value, signature): the checksummed
\* address of the key that signed, an unrelated address when the signature
\* was made over another value, an exception when it cannot be decoded
verifyTypedData(value, signature) ==
  IF signature = Malformed THEN Throw
  ELSE IF signature.value = value THEN walletAddress(signature.signer)
  ELSE UnrelatedAddress

(***************************************************************************)
(* Payment proofs                                                          *)
(***************************************************************************)
\* the signatures a client may attach to the fields it sends: the agent's
\* signature over them, a foreign key's signature over them, the agent's
\* signature over another amount, and bytes that are no signature
SignaturesFor(from, to, amount, resource, nonce, expiry) ==
  { signTypedData("agent", typedValue(from, to, amount, resource, nonce, expiry)),
    signTypedData("mallory", typedValue(from, to, amount, resource, nonce, expiry)),
    signTypedData("agent", typedValue(from, to, amount + 1, resource, nonce, expiry)),
    Malformed }

\* interface PaymentProof
Proofs ==
  UNION { { [signature |-> sg, from |-> f, to |-> DATA_PROVIDER, amount |-> a,
             resource |-> r, nonce |-> n, expiry |-> e]
            : sg \in SignaturesFor(f, DATA_PROVIDER, a, r, n, e) }
          : <<f, a, r, n, e>> \in
              FromStrings \X ProofAmounts \X Resources \X ProofNonces \X ProofExpiries }

(***************************************************************************)
(* State                                                                   *)
(***************************************************************************)
VARIABLES
  now,          \* Math.floor(Date.now() / 1000)
  usedNonces,   \* facilitator.ts: const usedNonces = new Set<string>()
  acceptCount,  \* history: how often each (from, nonce) was returned valid
  last,         \* the latest call of the verifier, of the issuer or of the
                \* middleware, and what it returned
  issueCount,   \* history: how often each nonce was put in a Requirement
  conn,         \* the request contexts of the gateway that are in flight
  resp,         \* the latest HTTP response the gateway sent
  client        \* the payAndFetch call of the client: where it waits, what it
                \* has sent and received, and what it returned

x402vars == <<now, usedNonces, acceptCount, last, issueCount, conn, resp, client>>

\* the (from, nonce) pairs of the model's proofs
Pairs == FromStrings \X ProofNonces

pairOf(proof) == <<proof.from, proof.nonce>>

(***************************************************************************)
(* facilitator.ts: verifyPaymentProof                                      *)
(***************************************************************************)
\* a replay key that also names the resource
nonceKey_WithResource(proof) ==
  proof.from \o <<"-", ToString(proof.nonce), "-", proof.resource>>

\* `${proof.from}-${proof.nonce}`
nonceKey(proof) == proof.from \o <<"-", ToString(proof.nonce)>>

\* a verifier that lets a proof live one second past the rejected instant
isExpired_Grace(proof, t) == proof.expiry + 1 < t

\* a verifier that rejects a proof at the instant of its expiry
isExpired_Strict(proof, t) == proof.expiry <= t

\* if (proof.expiry < now)
isExpired(proof, t) == proof.expiry < t

\* a verifier that takes the exact amount only
isInsufficient_Exact(proof, expectedAmount) == proof.amount # expectedAmount

\* if (BigInt(proof.amount) < BigInt(expectedAmount))
isInsufficient(proof, expectedAmount) == proof.amount < expectedAmount

\* if (proof.resource !== expectedResource)
isResourceMismatch(proof, expectedResource) == proof.resource # expectedResource

\* ethers.verifyTypedData(PAYMENT_DOMAIN, PAYMENT_TYPES, value, proof.signature)
recoverSigner(proof) ==
  verifyTypedData(
    typedValue(proof.from, proof.to, proof.amount, proof.resource, proof.nonce,
               proof.expiry),
    proof.signature)

\* a verifier that recovers the signer but never compares it
isSignerMismatch_Skipped(recoveredAddress, proof) == FALSE

\* if (recoveredAddress.toLowerCase() !== proof.from.toLowerCase())
isSignerMismatch(recoveredAddress, proof) ==
  toLowerCase(recoveredAddress) # toLowerCase(proof.from)

\* a verifier that never records the nonce it accepted
markUsed_Forgotten(used, key) == used

\* usedNonces.add(nonceKey)
markUsed(used, key) == used \cup {key}

\* return { valid: false, signer, reason }
invalid(signer, reason, used) ==
  [valid |-> FALSE, signer |-> signer, reason |-> reason, used |-> used,
   threw |-> FALSE]

\* a verifier that records the nonce before it tests amount, resource and
\* signature
tryVerify_MarksFirst(proof, expectedResource, expectedAmount, t, used) ==
  IF isExpired(proof, t) THEN invalid(<<>>, "Payment proof expired", used)
  ELSE IF nonceKey(proof) \in used THEN invalid(<<>>, "Nonce already used", used)
  ELSE IF isInsufficient(proof, expectedAmount)
    THEN invalid(<<>>, "Insufficient payment", markUsed(used, nonceKey(proof)))
  ELSE IF isResourceMismatch(proof, expectedResource)
    THEN invalid(<<>>, "Resource mismatch", markUsed(used, nonceKey(proof)))
  ELSE IF recoverSigner(proof) = Throw
    THEN [valid |-> FALSE, signer |-> <<>>, reason |-> "invalid signature",
          used |-> markUsed(used, nonceKey(proof)), threw |-> TRUE]
  ELSE IF isSignerMismatch(recoverSigner(proof), proof)
    THEN invalid(recoverSigner(proof), "Signature does not match claimed sender",
                 markUsed(used, nonceKey(proof)))
  ELSE [valid |-> TRUE, signer |-> recoverSigner(proof), reason |-> "",
        used |-> markUsed(used, nonceKey(proof)), threw |-> FALSE]

\* a verifier that tests the amount before the replay set
tryVerify_AmountFirst(proof, expectedResource, expectedAmount, t, used) ==
  IF isExpired(proof, t) THEN invalid(<<>>, "Payment proof expired", used)
  ELSE IF isInsufficient(proof, expectedAmount)
    THEN invalid(<<>>, "Insufficient payment", used)
  ELSE IF nonceKey(proof) \in used THEN invalid(<<>>, "Nonce already used", used)
  ELSE IF isResourceMismatch(proof, expectedResource)
    THEN invalid(<<>>, "Resource mismatch", used)
  ELSE IF recoverSigner(proof) = Throw
    THEN [valid |-> FALSE, signer |-> <<>>, reason |-> "invalid signature",
          used |-> used, threw |-> TRUE]
  ELSE IF isSignerMismatch(recoverSigner(proof), proof)
    THEN invalid(recoverSigner(proof), "Signature does not match claimed sender",
                 used)
  ELSE [valid |-> TRUE, signer |-> recoverSigner(proof), reason |-> "",
        used |-> markUsed(used, nonceKey(proof)), threw |-> FALSE]

\* the body of the try block: what it returns, the replay set it leaves, and
\* whether it ended by throwing
tryVerify(proof, expectedResource, expectedAmount, t, used) ==
  IF isExpired(proof, t) THEN invalid(<<>>, "Payment proof expired", used)
  ELSE IF nonceKey(proof) \in used THEN invalid(<<>>, "Nonce already used", used)
  ELSE IF isInsufficient(proof, expectedAmount)
    THEN invalid(<<>>, "Insufficient payment", used)
  ELSE IF isResourceMismatch(proof, expectedResource)
    THEN invalid(<<>>, "Resource mismatch", used)
  ELSE IF recoverSigner(proof) = Throw
    THEN [valid |-> FALSE, signer |-> <<>>, reason |-> "invalid signature",
          used |-> used, threw |-> TRUE]
  ELSE IF isSignerMismatch(recoverSigner(proof), proof)
    THEN invalid(recoverSigner(proof), "Signature does not match claimed sender",
                 used)
  ELSE [valid |-> TRUE, signer |-> recoverSigner(proof), reason |-> "",
        used |-> markUsed(used, nonceKey(proof)), threw |-> FALSE]

\* catch (error) { return { valid: false, signer: "", reason: `Verification error: ...` } }
catchError(r) ==
  IF r.threw THEN invalid(<<>>, "Verification error", r.used) ELSE r

\* the returned {valid, signer, reason} and the replay set after the call,
\* for a call at time t with replay set used
verifyPaymentProof(proof, expectedResource, expectedAmount, t, used) ==
  catchError(tryVerify(proof, expectedResource, expectedAmount, t, used))

(***************************************************************************)
(* facilitator.ts: createPaymentRequirement, parsePaymentHeader            *)
(***************************************************************************)
\* expiry: Math.floor(Date.now() / 1000) + 300
EXPIRY_SECONDS == 300

\* config.bsc.chainId
chainId == 56

\* the values Math.floor(Math.random() * 1000000) takes in the model
RandomNonces == {0, 1}

\* the Requirement returned at time t when Math.random() yields rnd
createPaymentRequirement(resource, amount, receiver, rnd, t) ==
  [amount |-> amount, currency |-> "usdt", receiver |-> receiver,
   resource |-> resource, network |-> "bsc", chainId |-> chainId,
   nonce |-> rnd, expiry |-> t + EXPIRY_SECONDS]

NoRequirement ==
  [amount |-> 0, currency |-> "", receiver |-> <<>>, resource |-> "",
   network |-> "", chainId |-> 0, nonce |-> 0, expiry |-> 0]

\* how a JSON body's absent fields are written in the model: an absent or
\* empty string is "" (<<>> for an address), an absent amount or nonce is -1,
\* an absent expiry is 0 (like the number 0, it is falsy)
NoSignature ==
  [signer |-> "absent",
   value |-> [from |-> <<>>, to |-> <<>>, amount |-> 0, resource |-> "",
              nonce |-> 0, expiry |-> 0]]

\* the value parsePaymentHeader returns for null
NoProof ==
  [signature |-> NoSignature, from |-> <<>>, to |-> <<>>, amount |-> -1,
   resource |-> "", nonce |-> -1, expiry |-> 0]

\* Buffer.from(JSON.stringify(proof)).toString("base64")
encodePaymentHeader(proof) == [kind |-> "base64-json", body |-> proof]

\* no X-402-Payment header, and a header that is not base64 of JSON
NoHeader == [kind |-> "absent", body |-> NoProof]
GarbageHeader == [kind |-> "garbage", body |-> NoProof]

\* JSON.parse(Buffer.from(header, "base64").toString("utf-8")), then the test
\* of the seven fields
parsePaymentHeader(header) ==
  IF header.kind # "base64-json" THEN NoProof
  ELSE IF \/ header.body.signature = NoSignature
          \/ header.body.from = <<>>
          \/ header.body.to = <<>>
          \/ header.body.amount = -1
          \/ header.body.resource = ""
          \/ header.body.nonce = -1
          \/ header.body.expiry = 0
    THEN NoProof
  ELSE header.body

\* the history of acceptances after a call that returned res
countAccept(count, proof, res) ==
  IF res.valid
    THEN [count EXCEPT ![pairOf(proof)] = IF @ < 2 THEN @ + 1 ELSE @]
    ELSE count

\* one call of verifyPaymentProof (by any caller of the module)
Verify(proof, expectedResource, expectedAmount) ==
  LET res == verifyPaymentProof(proof, expectedResource, expectedAmount, now,
                                usedNonces)
  IN /\ usedNonces' = res.used
     /\ acceptCount' = countAccept(acceptCount, proof, res)
     /\ last' = [op |-> "verify", proof |-> proof,
                 expectedResource |-> expectedResource,
                 expectedAmount |-> expectedAmount, at |-> now,
                 replayed |-> nonceKey(proof) \in usedNonces,
                 acceptedBefore |-> acceptCount[pairOf(proof)] > 0,
                 valid |-> res.valid, signer |-> res.signer,
                 reason |-> res.reason, threw |-> res.threw,
                 inserted |-> res.used \ usedNonces,
                 removed |-> usedNonces \ res.used]
     /\ UNCHANGED <<now, issueCount, conn, resp, client>>

VerifyCall ==
  \E proof \in Proofs, rt \in Routes : Verify(proof, rt.resource, rt.amount)

\* the wall clock advances
Tick ==
  /\ now < MaxTime
  /\ now' = now + 1
  /\ UNCHANGED <<usedNonces, acceptCount, last, issueCount, conn, resp, client>>

(***************************************************************************)
(* The requirement issuer called directly                                  *)
(***************************************************************************)
\* the history of issued nonces after one more Requirement
countIssue(count, requirement) ==
  [count EXCEPT ![requirement.nonce] = IF @ < 2 THEN @ + 1 ELSE @]

Issue(resource, amount, receiver, rnd) ==
  LET requirement == createPaymentRequirement(resource, amount, receiver, rnd, now)
  IN /\ issueCount' = countIssue(issueCount, requirement)
     /\ last' = [op |-> "issue", requirement |-> requirement,
                 issuedBefore |-> issueCount[requirement.nonce] > 0]
     /\ UNCHANGED <<now, usedNonces, acceptCount, conn, resp, client>>

IssueCall ==
  \E rt \in Routes, rnd \in RandomNonces :
    Issue(rt.resource, rt.amount, DATA_PROVIDER, rnd)

(***************************************************************************)
(* The gateway: x402Middleware and the protected handler                   *)
(***************************************************************************)
\* a JSON body that lacks its expiry
IncompleteProof ==
  [signature |-> Malformed, from |-> walletAddress("agent"), to |-> DATA_PROVIDER,
   amount |-> 1, resource |-> "/api/x402/price/T", nonce |-> 0, expiry |-> 0]

\* the proofs sent to the gateway: from the agent's address as its wallet
\* spells it, signed over their fields by the agent or by a foreign key
GatewayProofs ==
  { p \in Proofs :
      /\ p.from = walletAddress("agent")
      /\ \E w \in Wallets :
           p.signature =
             signTypedData(w, typedValue(p.from, p.to, p.amount, p.resource,
                                         p.nonce, p.expiry)) }

\* what a request may carry in X-402-Payment
Headers ==
  {NoHeader, GarbageHeader, encodePaymentHeader(IncompleteProof)}
    \cup {encodePaymentHeader(p) : p \in GatewayProofs}

\* a request context: idle, or suspended in await next() with the variables
\* the middleware has set on it
IdleConn ==
  [pc |-> "idle", pair |-> <<<<>>, -1>>, x402_payer |-> <<>>, x402_amount |-> 0,
   service |-> "", valid |-> FALSE]

NoResponse ==
  [status |-> 0, error |-> "", reason |-> "", requirement |-> NoRequirement,
   verified |-> FALSE, pair |-> <<<<>>, -1>>, payer |-> <<>>, amount |-> 0,
   service |-> ""]

\* c.json({error: "Payment Required", code: 402, paymentRequirement, message}, 402)
challenge(requirement) ==
  [NoResponse EXCEPT !.status = 402, !.error = "Payment Required",
                     !.requirement = requirement]

\* c.json({error: "Invalid Payment", code: 400, message}, 400)
invalidPayment ==
  [NoResponse EXCEPT !.status = 400, !.error = "Invalid Payment"]

\* c.json({error: "Payment Rejected", code: 402, reason, paymentRequirement}, 402)
rejected(proof, reason, requirement) ==
  [NoResponse EXCEPT !.status = 402, !.error = "Payment Rejected",
                     !.reason = reason, !.requirement = requirement,
                     !.pair = pairOf(proof)]

\* c.set("x402_payer", verification.signer); c.set("x402_amount", proof.amount);
\* await next(); valid keeps what verifyPaymentProof returned for this request
forwarded(proof, verification, rt) ==
  [pc |-> "next", pair |-> pairOf(proof), x402_payer |-> verification.signer,
   x402_amount |-> proof.amount, service |-> rt.resource,
   valid |-> verification.valid]

\* the first free request context
FreeConn(r) ==
  /\ conn[r].pc = "idle"
  /\ \A q \in 1..MaxReqs : q < r => conn[q].pc # "idle"

\* the record of one run of the middleware: the route and time, whether the
\* header was absent and whether it parsed, whether verifyPaymentProof was
\* called and what it returned, the response sent (NoResponse when the run
\* went on to next()) and the request context it left
ran(rt, header, proof, called, res, response, ctx) ==
  [op |-> "request", route |-> rt, at |-> now,
   absent |-> header = NoHeader,
   parsed |-> parsePaymentHeader(header) # NoProof,
   called |-> called,
   valid |-> called /\ res.valid,
   signer |-> IF called THEN res.signer ELSE <<>>,
   reason |-> IF called THEN res.reason ELSE "",
   amount |-> IF called THEN proof.amount ELSE 0,
   resource |-> IF called THEN proof.resource ELSE "",
   expired |-> called /\ proof.expiry < now,
   replayed |-> called /\ nonceKey(proof) \in usedNonces,
   response |-> response, ctx |-> ctx]

\* a middleware that lets a rejected proof through to the handler
Middleware_ForwardsRejected(r, rt, header, rnd) ==
  /\ FreeConn(r)
  /\ LET requirement ==
           createPaymentRequirement(rt.resource, rt.amount, DATA_PROVIDER, rnd, now)
         proof == parsePaymentHeader(header)
         res == verifyPaymentProof(proof, rt.resource, rt.amount, now, usedNonces)
     IN IF header = NoHeader
          THEN /\ resp' = challenge(requirement)
               /\ issueCount' = countIssue(issueCount, requirement)
               /\ last' = ran(rt, header, proof, FALSE, res, resp', conn[r])
               /\ UNCHANGED <<conn, usedNonces, acceptCount>>
        ELSE IF proof = NoProof
          THEN /\ resp' = invalidPayment
               /\ last' = ran(rt, header, proof, FALSE, res, resp', conn[r])
               /\ UNCHANGED <<conn, issueCount, usedNonces, acceptCount>>
        ELSE /\ conn' = [conn EXCEPT ![r] = forwarded(proof, res, rt)]
             /\ usedNonces' = res.used
             /\ acceptCount' = countAccept(acceptCount, proof, res)
             /\ last' = ran(rt, header, proof, TRUE, res, NoResponse, conn'[r])
             /\ UNCHANGED <<resp, issueCount>>
  /\ UNCHANGED now

\* the middleware of a request on route rt, from its start to its response or
\* to its await next(): one synchronous run
Middleware(r, rt, header, rnd) ==
  /\ FreeConn(r)
  /\ LET requirement ==
           createPaymentRequirement(rt.resource, rt.amount, DATA_PROVIDER, rnd, now)
         proof == parsePaymentHeader(header)
         res == verifyPaymentProof(proof, rt.resource, rt.amount, now, usedNonces)
     IN IF header = NoHeader
          THEN /\ resp' = challenge(requirement)
               /\ issueCount' = countIssue(issueCount, requirement)
               /\ last' = ran(rt, header, proof, FALSE, res, resp', conn[r])
               /\ UNCHANGED <<conn, usedNonces, acceptCount>>
        ELSE IF proof = NoProof
          THEN /\ resp' = invalidPayment
               /\ last' = ran(rt, header, proof, FALSE, res, resp', conn[r])
               /\ UNCHANGED <<conn, issueCount, usedNonces, acceptCount>>
        ELSE IF ~res.valid
          THEN /\ resp' = rejected(proof, res.reason, requirement)
               /\ issueCount' = countIssue(issueCount, requirement)
               /\ usedNonces' = res.used
               /\ last' = ran(rt, header, proof, TRUE, res, resp', conn[r])
               /\ UNCHANGED <<conn, acceptCount>>
        ELSE /\ conn' = [conn EXCEPT ![r] = forwarded(proof, res, rt)]
             /\ usedNonces' = res.used
             /\ acceptCount' = countAccept(acceptCount, proof, res)
             /\ last' = ran(rt, header, proof, TRUE, res, NoResponse, conn'[r])
             /\ UNCHANGED <<resp, issueCount>>
  /\ UNCHANGED now

Request ==
  \E r \in 1..MaxReqs, rt \in Routes, header \in Headers, rnd \in RandomNonces :
    Middleware(r, rt, header, rnd)

\* the protected handler after next(): the data source answers, and the
\* response carries {payer, amount, service}, or it fails with a 500
Handler(r, ok) ==
  /\ conn[r].pc = "next"
  /\ resp' = IF ok
               THEN [NoResponse EXCEPT !.status = 200,
                                       !.verified = conn[r].valid,
                                       !.pair = conn[r].pair,
                                       !.payer = conn[r].x402_payer,
                                       !.amount = conn[r].x402_amount,
                                       !.service = conn[r].service]
               ELSE [NoResponse EXCEPT !.status = 500,
                                       !.verified = conn[r].valid,
                                       !.pair = conn[r].pair]
  /\ conn' = [conn EXCEPT ![r] = IdleConn]
  /\ UNCHANGED <<now, usedNonces, acceptCount, last, issueCount>>

Respond == \E r \in 1..MaxReqs, ok \in BOOLEAN : Handler(r, ok)

(***************************************************************************)
(* AgentRegistry.sol                                                       *)
(***************************************************************************)
VARIABLES
  blockTime,      \* block.timestamp
  agents,         \* mapping(address => Agent) public agents
  agentList,      \* address[] public agentList
  paymentLedger,  \* address public paymentLedger
  chainLast,      \* the latest transaction sent to the registry, and its outcome
  registeredBudget \* history: the dailyBudget each agent registered with

registryVars ==
  <<blockTime, agents, agentList, paymentLedger, chainLast, registeredBudget>>

\* 1 days
ONE_DAY == 86400

\* the accounts that send transactions, and the PaymentLedger contract
AgentWallet == walletAddress("agent")
OtherWallet == walletAddress("mallory")
OwnerAddress == <<"0", "d">>
LedgerAddress == <<"1", "e">>

\* the wallets that may register as agents
Accounts == {AgentWallet, OtherWallet}

\* every msg.sender of the model
Callers == Accounts \cup {OwnerAddress, LedgerAddress}

\* owner = msg.sender (constructor)
owner == OwnerAddress

\* the zero value of struct Agent
NoAgent ==
  [wallet |-> ZeroAddress, name |-> "", dailyBudget |-> 0, spentToday |-> 0,
   lastResetDay |-> 0, active |-> FALSE, registeredAt |-> 0]

\* the arguments of the model's transactions
AgentNames == {"", "PayMind"}
Budgets == {0, 6, 10}
SpendAmounts == {0, 5, 6, UintMax}

\* block.timestamp / 1 days
currentDay(ts) == ts \div ONE_DAY

\* checked uint256 addition: x + y overflows
overflows(x, y) == x + y > UintMax

\* setPaymentLedger(_paymentLedger) sent by sender: outcome and new value
setPaymentLedger(ledger, sender, newLedger) ==
  IF sender # owner
    THEN [ok |-> FALSE, error |-> "caller is not owner", paymentLedger |-> ledger]
  ELSE IF newLedger = ZeroAddress
    THEN [ok |-> FALSE, error |-> "zero address", paymentLedger |-> ledger]
  ELSE [ok |-> TRUE, error |-> "", paymentLedger |-> newLedger]

\* a registerAgent that lets a deactivated agent register again
registerAgent_Revives(ags, list, sender, name, dailyBudget, ts) ==
  IF ags[sender].wallet # ZeroAddress /\ ags[sender].active
    THEN [ok |-> FALSE, error |-> "already registered", agents |-> ags,
          agentList |-> list]
  ELSE [ok |-> TRUE, error |-> "",
        agents |-> [ags EXCEPT ![sender] =
                      [wallet |-> sender, name |-> name,
                       dailyBudget |-> dailyBudget, spentToday |-> 0,
                       lastResetDay |-> currentDay(ts), active |-> TRUE,
                       registeredAt |-> ts]],
        agentList |-> Append(list, sender)]

\* registerAgent(name, dailyBudget) sent by sender at block time ts
registerAgent(ags, list, sender, name, dailyBudget, ts) ==
  IF ags[sender].wallet # ZeroAddress
    THEN [ok |-> FALSE, error |-> "already registered", agents |-> ags,
          agentList |-> list]
  ELSE IF name = ""
    THEN [ok |-> FALSE, error |-> "empty name", agents |-> ags, agentList |-> list]
  ELSE IF ~(dailyBudget > 0)
    THEN [ok |-> FALSE, error |-> "zero budget", agents |-> ags, agentList |-> list]
  ELSE [ok |-> TRUE, error |-> "",
        agents |-> [ags EXCEPT ![sender] =
                      [wallet |-> sender, name |-> name,
                       dailyBudget |-> dailyBudget, spentToday |-> 0,
                       lastResetDay |-> currentDay(ts), active |-> TRUE,
                       registeredAt |-> ts]],
        agentList |-> Append(list, sender)]

\* modifier onlyRegistered
onlyRegistered(ags, sender) == ags[sender].wallet # ZeroAddress

\* deactivateAgent() sent by sender
deactivateAgent(ags, sender) ==
  IF ~onlyRegistered(ags, sender)
    THEN [ok |-> FALSE, error |-> "agent not registered", agents |-> ags]
  ELSE [ok |-> TRUE, error |-> "",
        agents |-> [ags EXCEPT ![sender].active = FALSE]]

\* updateBudget(newBudget) sent by sender
updateBudget(ags, sender, newBudget) ==
  IF ~onlyRegistered(ags, sender)
    THEN [ok |-> FALSE, error |-> "agent not registered", agents |-> ags]
  ELSE IF ~(newBudget > 0)
    THEN [ok |-> FALSE, error |-> "zero budget", agents |-> ags]
  ELSE [ok |-> TRUE, error |-> "",
        agents |-> [ags EXCEPT ![sender].dailyBudget = newBudget]]

\* a canSpend that counts yesterday's spend against today's budget
spentForCheck_NoReset(a, ts) == a.spentToday

\* uint256 spent = a.lastResetDay < currentDay ? 0 : a.spentToday  (canSpend)
spentForCheck(a, ts) ==
  IF a.lastResetDay < currentDay(ts) THEN 0 ELSE a.spentToday

\* canSpend(agent, amount) at block time ts: the call reverts (arithmetic
\* overflow) or returns a boolean
canSpend(ags, agent, amount, ts) ==
  IF ags[agent].wallet = ZeroAddress \/ ~ags[agent].active
    THEN [reverts |-> FALSE, value |-> FALSE]
  ELSE IF overflows(spentForCheck(ags[agent], ts), amount)
    THEN [reverts |-> TRUE, value |-> FALSE]
  ELSE [reverts |-> FALSE,
        value |-> spentForCheck(ags[agent], ts) + amount <= ags[agent].dailyBudget]

\* a registry that takes recordSpend from any caller
onlyPaymentLedger_Anyone(ledger, sender) == TRUE

\* modifier onlyPaymentLedger
onlyPaymentLedger(ledger, sender) == sender = ledger

\* a reset that stamps the record with the day after the current one
resetDay_Tomorrow(a, ts) ==
  IF a.lastResetDay < currentDay(ts)
    THEN [a EXCEPT !.spentToday = 0, !.lastResetDay = currentDay(ts) + 1]
    ELSE a

\* a recordSpend that never starts a new day
resetDay_Never(a, ts) == a

\* if (a.lastResetDay < currentDay) { a.spentToday = 0; a.lastResetDay = currentDay; }
resetDay(a, ts) ==
  IF a.lastResetDay < currentDay(ts)
    THEN [a EXCEPT !.spentToday = 0, !.lastResetDay = currentDay(ts)]
    ELSE a

\* a budget test made before the amount is added
withinBudget_BeforeAdd(a, amount) == a.spentToday <= a.dailyBudget

\* require(a.spentToday + amount <= a.dailyBudget)
withinBudget(a, amount) == a.spentToday + amount <= a.dailyBudget

\* a recordSpend whose day reset survives the failed budget check
recordSpend_KeepsReset(ags, ledger, sender, agent, amount, ts) ==
  IF ~onlyPaymentLedger(ledger, sender)
    THEN [ok |-> FALSE, error |-> "caller is not PaymentLedger", agents |-> ags]
  ELSE IF ags[agent].wallet = ZeroAddress
    THEN [ok |-> FALSE, error |-> "agent not registered", agents |-> ags]
  ELSE IF ~ags[agent].active
    THEN [ok |-> FALSE, error |-> "agent not active", agents |-> ags]
  ELSE IF overflows(resetDay(ags[agent], ts).spentToday, amount)
    THEN [ok |-> FALSE, error |-> "panic: overflow", agents |-> ags]
  ELSE IF ~withinBudget(resetDay(ags[agent], ts), amount)
    THEN [ok |-> FALSE, error |-> "exceeds daily budget",
          agents |-> [ags EXCEPT ![agent] = resetDay(ags[agent], ts)]]
  ELSE [ok |-> TRUE, error |-> "",
        agents |-> [ags EXCEPT ![agent] =
                      [resetDay(ags[agent], ts) EXCEPT !.spentToday = @ + amount]]]

\* recordSpend(agent, amount) sent by sender at block time ts; a revert
\* leaves the storage as it was
recordSpend(ags, ledger, sender, agent, amount, ts) ==
  IF ~onlyPaymentLedger(ledger, sender)
    THEN [ok |-> FALSE, error |-> "caller is not PaymentLedger", agents |-> ags]
  ELSE IF ags[agent].wallet = ZeroAddress
    THEN [ok |-> FALSE, error |-> "agent not registered", agents |-> ags]
  ELSE IF ~ags[agent].active
    THEN [ok |-> FALSE, error |-> "agent not active", agents |-> ags]
  ELSE IF overflows(resetDay(ags[agent], ts).spentToday, amount)
    THEN [ok |-> FALSE, error |-> "panic: overflow", agents |-> ags]
  ELSE IF ~withinBudget(resetDay(ags[agent], ts), amount)
    THEN [ok |-> FALSE, error |-> "exceeds daily budget", agents |-> ags]
  ELSE [ok |-> TRUE, error |-> "",
        agents |-> [ags EXCEPT ![agent] =
                      [resetDay(ags[agent], ts) EXCEPT !.spentToday = @ + amount]]]

\* what chainLast records of a registry call: the agent concerned, its record
\* before the call, the amount or budget passed, and the outcome
callRecord(op, sender, agent, amount, res) ==
  [op |-> op, sender |-> sender, agent |-> agent, amount |-> amount,
   at |-> blockTime, before |-> agents[agent], ok |-> res.ok,
   error |-> res.error]

SetPaymentLedger(sender, newLedger) ==
  LET res == setPaymentLedger(paymentLedger, sender, newLedger)
  IN /\ paymentLedger' = res.paymentLedger
     /\ chainLast' = [op |-> "setPaymentLedger", sender |-> sender,
                      agent |-> newLedger, amount |-> 0, at |-> blockTime,
                      before |-> NoAgent, ok |-> res.ok, error |-> res.error]
     /\ UNCHANGED <<blockTime, agents, agentList, registeredBudget>>

RegisterAgent(sender, name, dailyBudget) ==
  LET res == registerAgent(agents, agentList, sender, name, dailyBudget, blockTime)
  IN /\ agents' = res.agents
     /\ agentList' = res.agentList
     /\ registeredBudget' =
          IF res.ok THEN [registeredBudget EXCEPT ![sender] = dailyBudget]
                    ELSE registeredBudget
     /\ chainLast' = callRecord("registerAgent", sender, sender, dailyBudget, res)
     /\ UNCHANGED <<blockTime, paymentLedger>>

DeactivateAgent(sender) ==
  LET res == deactivateAgent(agents, sender)
  IN /\ agents' = res.agents
     /\ chainLast' = callRecord("deactivateAgent", sender, sender, 0, res)
     /\ UNCHANGED <<blockTime, agentList, paymentLedger, registeredBudget>>

UpdateBudget(sender, newBudget) ==
  LET res == updateBudget(agents, sender, newBudget)
  IN /\ agents' = res.agents
     /\ chainLast' = callRecord("updateBudget", sender, sender, newBudget, res)
     /\ UNCHANGED <<blockTime, agentList, paymentLedger, registeredBudget>>

RecordSpend(sender, agent, amount) ==
  LET res == recordSpend(agents, paymentLedger, sender, agent, amount, blockTime)
  IN /\ agents' = res.agents
     /\ chainLast' = callRecord("recordSpend", sender, agent, amount, res)
     /\ UNCHANGED <<blockTime, agentList, paymentLedger, registeredBudget>>

\* a later block: half a day on
ChainTick ==
  /\ blockTime < MaxChainTicks * (ONE_DAY \div 2)
  /\ blockTime' = blockTime + (ONE_DAY \div 2)
  /\ UNCHANGED <<agents, agentList, paymentLedger, chainLast, registeredBudget>>

RegistryInit ==
  /\ blockTime = 0
  /\ agents = [w \in Accounts |-> NoAgent]
  /\ agentList = <<>>
  /\ registeredBudget = [w \in Accounts |-> 0]
  /\ paymentLedger = ZeroAddress
  /\ chainLast = [op |-> "none"]

(***************************************************************************)
(* PaymentLedger.sol                                                       *)
(***************************************************************************)
VARIABLES
  payments,              \* Payment[] public payments
  totalSpentByAgent,     \* mapping(address => uint256)
  paymentCountByAgent,   \* mapping(address => uint256)
  spentBySourceByAgent   \* mapping(address => mapping(string => uint256))

contractVars ==
  <<payments, totalSpentByAgent, paymentCountByAgent, spentBySourceByAgent>>

\* the arguments of the model's logPayment transactions
DataSources == {"", "dune_analytics"}
QueryTypes == {"", "price_feed"}
DataHash == "keccak"
LogAmounts == {0, 5}
LedgerBudgets == {6}

\* the storage of the contract as one value
ledgerStorage ==
  [payments |-> payments, totalSpentByAgent |-> totalSpentByAgent,
   paymentCountByAgent |-> paymentCountByAgent,
   spentBySourceByAgent |-> spentBySourceByAgent]

\* a reverted logPayment: storage of both contracts as it was
logReverted(st, ags, error) ==
  [ok |-> FALSE, error |-> error, storage |-> st, agents |-> ags,
   spend |-> [ok |-> FALSE, error |-> "not called", agents |-> ags]]

\* a logPayment that stores the payment without the registry's recordSpend
logPayment_NoRecordSpend(st, ags, ledger, sender, dataSource, amount, dataHash, queryType, ts) ==
  LET spend == recordSpend(ags, ledger, LedgerAddress, sender, amount, ts)
  IN IF dataSource = ""
       THEN logReverted(st, ags, "empty dataSource")
     ELSE IF ~(amount > 0)
       THEN logReverted(st, ags, "zero amount")
     ELSE IF queryType = ""
       THEN logReverted(st, ags, "empty queryType")
     ELSE IF canSpend(ags, sender, amount, ts).reverts
       THEN logReverted(st, ags, "panic: overflow")
     ELSE IF ~canSpend(ags, sender, amount, ts).value
       THEN logReverted(st, ags, "agent cannot spend")
     ELSE IF ~spend.ok
       THEN [logReverted(st, ags, spend.error) EXCEPT !.spend = spend]
     ELSE IF \/ overflows(st.totalSpentByAgent[sender], amount)
             \/ overflows(st.paymentCountByAgent[sender], 1)
             \/ overflows(st.spentBySourceByAgent[sender][dataSource], amount)
       THEN [logReverted(st, ags, "panic: overflow") EXCEPT !.spend = spend]
     ELSE [ok |-> TRUE, error |-> "",
           storage |->
             [payments |->
                Append(st.payments,
                       [agent |-> sender, dataSource |-> dataSource,
                        amount |-> amount, dataHash |-> dataHash,
                        timestamp |-> ts, queryType |-> queryType]),
              totalSpentByAgent |->
                [st.totalSpentByAgent EXCEPT ![sender] = @ + amount],
              paymentCountByAgent |->
                [st.paymentCountByAgent EXCEPT ![sender] = @ + 1],
              spentBySourceByAgent |->
                [st.spentBySourceByAgent EXCEPT ![sender][dataSource] = @ + amount]],
           agents |-> ags,
           spend |-> spend]

\* logPayment(dataSource, amount, dataHash, queryType) sent by sender at block
\* time ts; the registry sees the ledger contract as msg.sender
logPayment(st, ags, ledger, sender, dataSource, amount, dataHash, queryType, ts) ==
  LET spend == recordSpend(ags, ledger, LedgerAddress, sender, amount, ts)
  IN IF dataSource = ""
       THEN logReverted(st, ags, "empty dataSource")
     ELSE IF ~(amount > 0)
       THEN logReverted(st, ags, "zero amount")
     ELSE IF queryType = ""
       THEN logReverted(st, ags, "empty queryType")
     ELSE IF canSpend(ags, sender, amount, ts).reverts
       THEN logReverted(st, ags, "panic: overflow")
     ELSE IF ~canSpend(ags, sender, amount, ts).value
       THEN logReverted(st, ags, "agent cannot spend")
     ELSE IF ~spend.ok
       THEN [logReverted(st, ags, spend.error) EXCEPT !.spend = spend]
     ELSE IF \/ overflows(st.totalSpentByAgent[sender], amount)
             \/ overflows(st.paymentCountByAgent[sender], 1)
             \/ overflows(st.spentBySourceByAgent[sender][dataSource], amount)
       THEN [logReverted(st, ags, "panic: overflow") EXCEPT !.spend = spend]
     ELSE [ok |-> TRUE, error |-> "",
           storage |->
             [payments |->
                Append(st.payments,
                       [agent |-> sender, dataSource |-> dataSource,
                        amount |-> amount, dataHash |-> dataHash,
                        timestamp |-> ts, queryType |-> queryType]),
              totalSpentByAgent |->
                [st.totalSpentByAgent EXCEPT ![sender] = @ + amount],
              paymentCountByAgent |->
                [st.paymentCountByAgent EXCEPT ![sender] = @ + 1],
              spentBySourceByAgent |->
                [st.spentBySourceByAgent EXCEPT ![sender][dataSource] = @ + amount]],
           agents |-> spend.agents,
           spend |-> spend]

\* getPaymentCount()
getPaymentCount(st) == Len(st.payments)

\* payments[i].agent == agent
paymentsOf(st, agent) == SelectSeq(st.payments, LAMBDA p : p.agent = agent)

\* new Payment[](count): the zero value of struct Payment
ZeroPayment ==
  [agent |-> ZeroAddress, dataSource |-> "", amount |-> 0, dataHash |-> "",
   timestamp |-> 0, queryType |-> ""]

RECURSIVE fillAgentPayments(_, _, _, _, _)
\* the loop of getPaymentsByAgent from payments[i] on, with the records found
\* so far; it stops at the end of payments or when index == count
fillAgentPayments(st, agent, count, i, found) ==
  IF i > Len(st.payments) THEN found
  ELSE IF st.payments[i].agent = agent
    THEN IF Len(found) + 1 = count THEN Append(found, st.payments[i])
         ELSE fillAgentPayments(st, agent, count, i + 1,
                                Append(found, st.payments[i]))
  ELSE fillAgentPayments(st, agent, count, i + 1, found)

\* getPaymentsByAgent(agent) of the contract: an array of
\* paymentCountByAgent[agent] entries, filled from the front
ledgerGetPaymentsByAgent(st, agent) ==
  LET count == st.paymentCountByAgent[agent]
      found == fillAgentPayments(st, agent, count, 1, <<>>)
  IN [i \in 1..count |-> IF i <= Len(found) THEN found[i] ELSE ZeroPayment]

\* a getRecentPayments that reads from the start of the array
ledgerGetRecentPayments_FromStart(st, count) ==
  LET total == Len(st.payments)
      n == IF count > total THEN total ELSE count
  IN [i \in 1..n |-> st.payments[i]]

\* getRecentPayments(count) of the contract
ledgerGetRecentPayments(st, count) ==
  LET total == Len(st.payments)
      n == IF count > total THEN total ELSE count
      startIndex == total - n
  IN [i \in 1..n |-> st.payments[startIndex + i]]

\* getAgentStats(agent) of the contract
ledgerGetAgentStats(st, agent) ==
  IF st.paymentCountByAgent[agent] = 0
    THEN [totalSpent |-> 0, queryCount |-> 0, firstPayment |-> 0, lastPayment |-> 0]
  ELSE IF paymentsOf(st, agent) = <<>>
    THEN [totalSpent |-> st.totalSpentByAgent[agent],
          queryCount |-> st.paymentCountByAgent[agent],
          firstPayment |-> 0, lastPayment |-> 0]
  ELSE [totalSpent |-> st.totalSpentByAgent[agent],
        queryCount |-> st.paymentCountByAgent[agent],
        firstPayment |-> paymentsOf(st, agent)[1].timestamp,
        lastPayment |-> paymentsOf(st, agent)[Len(paymentsOf(st, agent))].timestamp]

\* a logPayment transaction; the array is capped at MaxPayments
LogPayment(sender, dataSource, amount, queryType) ==
  LET res == logPayment(ledgerStorage, agents, paymentLedger, sender, dataSource,
                        amount, DataHash, queryType, blockTime)
  IN /\ Len(payments) < MaxPayments
     /\ payments' = res.storage.payments
     /\ totalSpentByAgent' = res.storage.totalSpentByAgent
     /\ paymentCountByAgent' = res.storage.paymentCountByAgent
     /\ spentBySourceByAgent' = res.storage.spentBySourceByAgent
     /\ agents' = res.agents
     /\ UNCHANGED <<blockTime, agentList, paymentLedger, chainLast,
                     registeredBudget>>

\* the keys the mappings are read at: the wallets and address(0)
LedgerKeys == Accounts \cup {ZeroAddress}

\* the data sources spentBySourceByAgent is read at
SourceKeys == DataSources \cup {"0x01"}

ContractInit ==
  /\ payments = <<>>
  /\ totalSpentByAgent = [a \in LedgerKeys |-> 0]
  /\ paymentCountByAgent = [a \in LedgerKeys |-> 0]
  /\ spentBySourceByAgent = [a \in LedgerKeys |-> [d \in SourceKeys |-> 0]]

(***************************************************************************)
(* The backend's ledger client (blockchain/ledger.ts, blockchain/wallet.ts) *)
(***************************************************************************)
VARIABLES
  config,          \* config.wallet.privateKey set, config.contracts.paymentLedger,
                   \* and the interface of the contract deployed at that address
  inMemoryLedger,  \* const inMemoryLedger: PaymentRecord[]
  inMemoryStats,   \* let inMemoryStats
  calls,           \* the logPayment calls waiting at an await
  backendLast      \* the latest logPayment call that returned, and its outcome

backendVars == <<config, inMemoryLedger, inMemoryStats, calls, backendLast>>

\* the environments the process may be started in: no ledger address, or the
\* address of a contract that is PaymentLedger.sol as it stands in the
\* repository, or of one that has the functions of PAYMENT_LEDGER_ABI
Configs ==
  [privateKey : BOOLEAN, paymentLedger : {""}, deployed : {"none"}]
    \cup [privateKey : BOOLEAN, paymentLedger : {"0x1e"},
          deployed : {"PaymentLedger.sol", "PAYMENT_LEDGER_ABI"}]

\* the signature the backend's ABI gives logPayment
BackendLogPaymentSignature == "logPayment(address,uint256,string,bytes32)"

\* the function signatures of the deployed contract
ContractSignatures(cfg) ==
  IF cfg.deployed = "PAYMENT_LEDGER_ABI"
    THEN {BackendLogPaymentSignature, "getPaymentsByAgent(address)",
          "getAgentStats(address)", "paymentCount()"}
    ELSE {"logPayment(string,uint256,bytes32,string)", "getPaymentCount()",
          "getPaymentsByAgent(address)", "getRecentPayments(uint256)",
          "getAgentStats(address)"}

\* the contract has no function with this selector (and no fallback function)
callReverts(cfg, signature) == signature \notin ContractSignatures(cfg)

\* const PROVIDER_ADDRESS = "0x…01"
PROVIDER_ADDRESS == "0x01"

\* the services the agent pays for, and their prices
ServiceTypes == {"security", "price"}
serviceCost(serviceType) ==
  IF serviceType = "security" THEN securityQueryCost ELSE priceQueryCost

\* ethers.id(txHash): the keccak256 of the string
id(txHash) == "keccak(" \o txHash \o ")"

hasContract(cfg) ==
  cfg.paymentLedger # "" /\ cfg.paymentLedger # "deployed_contract_address"

\* getWallet() throws when no private key is set
getWalletThrows(cfg) == ~cfg.privateKey

\* getAgentAddress()
getAgentAddress(cfg) == IF ~cfg.privateKey THEN ZeroAddress ELSE AgentWallet

\* getContract(): null or a contract bound to the wallet
getContract(cfg) ==
  IF ~hasContract(cfg) THEN "null"
  ELSE IF getWalletThrows(cfg) THEN "null"
  ELSE "contract"

\* getReadOnlyContract(): null or a contract bound to the provider
getReadOnlyContract(cfg) == IF ~hasContract(cfg) THEN "null" ELSE "contract"

\* a fallback whose counters are written from a snapshot taken before the
\* call's await, the other calls' commits lost
fallbackCommit_LastWriterWins(ledger, stats, cfg, provider, amount, serviceType, txHash, t) ==
  [inMemoryLedger |->
     Append(ledger, [agent |-> getAgentAddress(cfg), provider |-> provider,
                     amount |-> amount, serviceType |-> serviceType,
                     txHash |-> txHash, timestamp |-> t]),
   inMemoryStats |->
     [totalSpent |-> amount, queryCount |-> 1,
      firstPayment |-> IF stats.firstPayment = 0 THEN t ELSE stats.firstPayment,
      lastPayment |-> t]]

\* a fallback that puts the newest record first
fallbackCommit_Prepends(ledger, stats, cfg, provider, amount, serviceType, txHash, t) ==
  [inMemoryLedger |->
     <<[agent |-> getAgentAddress(cfg), provider |-> provider,
        amount |-> amount, serviceType |-> serviceType,
        txHash |-> txHash, timestamp |-> t]>> \o ledger,
   inMemoryStats |->
     [totalSpent |-> stats.totalSpent + amount,
      queryCount |-> stats.queryCount + 1,
      firstPayment |-> IF stats.firstPayment = 0 THEN t ELSE stats.firstPayment,
      lastPayment |-> t]]

\* the synchronous fallback block of logPayment
fallbackCommit(ledger, stats, cfg, provider, amount, serviceType, txHash, t) ==
  [inMemoryLedger |->
     Append(ledger, [agent |-> getAgentAddress(cfg), provider |-> provider,
                     amount |-> amount, serviceType |-> serviceType,
                     txHash |-> txHash, timestamp |-> t]),
   inMemoryStats |->
     [totalSpent |-> stats.totalSpent + amount,
      queryCount |-> stats.queryCount + 1,
      firstPayment |-> IF stats.firstPayment = 0 THEN t ELSE stats.firstPayment,
      lastPayment |-> t]]

\* r.agent.toLowerCase() === addr.toLowerCase()
inMemoryRecordsOf(ledger, addr) ==
  SelectSeq(ledger, LAMBDA r : toLowerCase(r.agent) = toLowerCase(addr))

\* a read goes to the contract: it is configured, the call succeeds and the
\* function exists
readsContract(cfg, signature, readOk) ==
  getReadOnlyContract(cfg) # "null" /\ readOk /\ ~callReverts(cfg, signature)

\* payments.map(p => ({agent: p.agent, provider: p.provider, ...}))
toPaymentRecord(p) ==
  [agent |-> p.agent, provider |-> p.dataSource, amount |-> p.amount,
   serviceType |-> p.queryType, txHash |-> p.dataHash, timestamp |-> p.timestamp]

\* the tuples PaymentLedger.sol returns do not decode as the tuples of
\* PAYMENT_LEDGER_ABI: reading a field of one throws
decodeThrows(cfg, result) ==
  cfg.deployed = "PaymentLedger.sol" /\ result # <<>>

\* getPaymentsByAgent(agentAddress): the tier read and the records returned
getPaymentsByAgent(cfg, st, ledger, addr, readOk) ==
  IF /\ readsContract(cfg, "getPaymentsByAgent(address)", readOk)
     /\ ~decodeThrows(cfg, paymentsOf(st, addr))
    THEN [tier |-> "contract",
          records |-> [k \in 1..Len(paymentsOf(st, addr)) |->
                         toPaymentRecord(paymentsOf(st, addr)[k])]]
    ELSE [tier |-> "memory", records |-> inMemoryRecordsOf(ledger, addr)]

\* getAgentStats(agentAddress): the contract's answer when it is configured
\* and the read succeeds, the in-memory totals otherwise
getAgentStats(cfg, st, stats, addr, readOk) ==
  IF readsContract(cfg, "getAgentStats(address)", readOk)
    THEN ledgerGetAgentStats(st, addr)
    ELSE [totalSpent |-> stats.totalSpent, queryCount |-> stats.queryCount,
          firstPayment |-> stats.firstPayment, lastPayment |-> stats.lastPayment]

\* a call slot: where the call waits, and its arguments
IdleCall == [pc |-> "idle", serviceType |-> "", txHash |-> ""]

\* the calls in flight
busyCalls == {i \in 1..MaxCalls : calls[i].pc # "idle"}

\* a new call takes the lowest idle slot
FreeCall(i) ==
  calls[i].pc = "idle" /\ \A j \in 1..(i - 1) : calls[j].pc # "idle"

\* the transaction the backend sends, run on the contract's present state:
\* msg.sender is the wallet, the arguments are passed in the ABI's order
sentLogPayment(call) ==
  logPayment(ledgerStorage, agents, paymentLedger, AgentWallet,
             PROVIDER_ADDRESS, serviceCost(call.serviceType), id(call.txHash),
             call.serviceType, blockTime)

\* the contract rejected the transaction for the daily budget: the agent is
\* registered and active, and canSpend was false or recordSpend's require failed
budgetRejected(ags, agent, res) ==
  /\ ~res.ok
  /\ ags[agent].wallet # ZeroAddress
  /\ ags[agent].active
  /\ res.error \in {"agent cannot spend", "exceeds daily budget"}

\* what backendLast records of a call that returned: what it returned, why the
\* authoritative write failed if it did, the in-memory totals before the
\* call's last step, and the records it added to each tier
returned(call, onChain, error, budget, onContract, inMemory) ==
  [op |-> "logPayment", serviceType |-> call.serviceType,
   amount |-> serviceCost(call.serviceType), txHash |-> call.txHash,
   agent |-> getAgentAddress(config), success |-> TRUE, onChain |-> onChain,
   error |-> error, budgetRejected |-> budget, statsBefore |-> inMemoryStats,
   onContract |-> onContract, inMemory |-> inMemory]

\* the fallback block run for a call
Fallback(call) ==
  LET fb == fallbackCommit(inMemoryLedger, inMemoryStats, config,
                           PROVIDER_ADDRESS, serviceCost(call.serviceType),
                           call.serviceType, call.txHash, now)
  IN /\ inMemoryLedger' = fb.inMemoryLedger
     /\ inMemoryStats' = fb.inMemoryStats

\* logPayment(provider, amount, serviceType, txHash) of the backend, up to its
\* first await: with no contract the record goes to the in-memory ledger at
\* once, with one the transaction is sent
BackendLogPayment(i, serviceType) ==
  LET call == [pc |-> "submitting", serviceType |-> serviceType,
               txHash |-> serviceType \o "-" \o ToString(now)]
  IN /\ FreeCall(i)
     /\ Len(inMemoryLedger) + Len(payments) + Cardinality(busyCalls) < MaxPayments
     /\ IF getContract(config) = "null"
          THEN /\ Fallback(call)
               /\ backendLast' = returned(call, FALSE, "no contract", FALSE, 0, 1)
               /\ UNCHANGED calls
          ELSE /\ calls' = [calls EXCEPT ![i] = call]
               /\ UNCHANGED <<inMemoryLedger, inMemoryStats, backendLast>>
     /\ UNCHANGED <<config, contractVars, registryVars>>

\* await contract.logPayment(...) settles: the node is unreachable, or the
\* contract has no such function, or the gas estimate finds a revert, and the
\* catch block falls back to memory; or the transaction is broadcast
BackendSubmitted(i, reachable) ==
  LET call == calls[i]
      sim == sentLogPayment(call)
      error == IF ~reachable THEN "unreachable"
               ELSE IF callReverts(config, BackendLogPaymentSignature)
                 THEN "unknown selector"
               ELSE sim.error
  IN /\ call.pc = "submitting"
     /\ IF error # ""
          THEN /\ Fallback(call)
               /\ calls' = [calls EXCEPT ![i] = IdleCall]
               /\ backendLast' =
                    returned(call, FALSE, error,
                             error = sim.error
                               /\ budgetRejected(agents, AgentWallet, sim), 0, 1)
          ELSE /\ calls' = [calls EXCEPT ![i].pc = "waiting"]
               /\ UNCHANGED <<inMemoryLedger, inMemoryStats, backendLast>>
     /\ UNCHANGED <<config, contractVars, registryVars>>

\* await tx.wait() settles: the transaction is mined on the contract's present
\* state; the receipt arrives and the call returns onChain, or the transaction
\* reverted or the receipt did not arrive, and the catch block falls back
BackendMined(i, receiptOk) ==
  LET call == calls[i]
      res == sentLogPayment(call)
  IN /\ call.pc = "waiting"
     /\ payments' = res.storage.payments
     /\ totalSpentByAgent' = res.storage.totalSpentByAgent
     /\ paymentCountByAgent' = res.storage.paymentCountByAgent
     /\ spentBySourceByAgent' = res.storage.spentBySourceByAgent
     /\ agents' = res.agents
     /\ calls' = [calls EXCEPT ![i] = IdleCall]
     /\ IF res.ok /\ receiptOk
          THEN /\ backendLast' = returned(call, TRUE, "", FALSE, 1, 0)
               /\ UNCHANGED <<inMemoryLedger, inMemoryStats>>
          ELSE /\ Fallback(call)
               /\ backendLast' =
                    returned(call, FALSE,
                             IF res.ok THEN "no receipt" ELSE res.error,
                             budgetRejected(agents, AgentWallet, res),
                             IF res.ok THEN 1 ELSE 0, 1)
     /\ UNCHANGED <<config, blockTime, agentList, paymentLedger, chainLast,
                     registeredBudget>>

BackendInit ==
  /\ inMemoryLedger = <<>>
  /\ inMemoryStats =
       [totalSpent |-> 0, queryCount |-> 0, firstPayment |-> 0, lastPayment |-> 0]
  /\ calls = [i \in 1..MaxCalls |-> IdleCall]
  /\ backendLast = [op |-> "none"]

(***************************************************************************)
(* client.ts: payAndFetch                                                  *)
(***************************************************************************)
\* a URL that no middleware guards, and the URLs the client fetches
OtherUrl == [resource |-> "/health", amount |-> 0]
Urls == Routes \cup {OtherUrl}

\* the amount argument left out, and the amounts a caller may pass
NoAmount == -1
AmountArgs == {NoAmount} \cup ProofAmounts

\* what an unguarded server may answer: 200, 500, or a 402 whose body is not JSON
OtherStatuses == {200, 500, 402}

\* the answer of the unguarded server
otherResponse(status) ==
  [NoResponse EXCEPT !.status = status,
                     !.error = IF status = 402 THEN "not json" ELSE ""]

\* no call made yet
IdleClient ==
  [pc |-> "idle", url |-> OtherUrl, amount |-> NoAmount, requests |-> 0,
   signed |-> 0, header |-> NoHeader, firstStatus |-> 0, retryStatus |-> 0,
   outcome |-> "none", error |-> "", paid |-> FALSE, paymentAmount |-> 0,
   payer |-> <<>>]

\* signPaymentAuthorization(params): getWallet() throws without a private
\* key, else the wallet signs the typed value with from: wallet.address
signPaymentAuthorization(cfg, to, amount, resource, nonce, expiry) ==
  IF getWalletThrows(cfg) THEN [threw |-> TRUE, signature |-> NoSignature]
  ELSE [threw |-> FALSE,
        signature |->
          signTypedData("agent",
                        typedValue(walletAddress("agent"), to, amount, resource,
                                   nonce, expiry))]

\* amount || requirement.amount
paymentAmountOf(amount, requirement) ==
  IF amount # NoAmount THEN amount ELSE requirement.amount

\* requirement.nonce || Math.floor(Math.random() * 1000000)
nonceOf(requirement, rnd) ==
  IF requirement.nonce # 0 THEN requirement.nonce ELSE rnd

\* requirement.expiry || Math.floor(Date.now() / 1000) + 300
expiryOf(requirement, t) ==
  IF requirement.expiry # 0 THEN requirement.expiry ELSE t + EXPIRY_SECONDS

\* the proof the client builds for a requirement
proofFor(cfg, amount, requirement, rnd, t) ==
  [signature |->
     signPaymentAuthorization(cfg, requirement.receiver,
                              paymentAmountOf(amount, requirement),
                              requirement.resource, nonceOf(requirement, rnd),
                              expiryOf(requirement, t)).signature,
   from |-> getAgentAddress(cfg), to |-> requirement.receiver,
   amount |-> paymentAmountOf(amount, requirement),
   resource |-> requirement.resource, nonce |-> nonceOf(requirement, rnd),
   expiry |-> expiryOf(requirement, t)]

\* payAndFetch(url, amount) up to its first await: the plain request is sent
ClientStart(url, amount) ==
  /\ client.pc = "idle"
  /\ client' = [IdleClient EXCEPT !.pc = "first", !.url = url,
                                  !.amount = amount, !.requests = 1]
  /\ UNCHANGED <<now, usedNonces, acceptCount, last, issueCount, conn, resp>>

\* the gateway answers the plain request
GatewayFirst(rnd) ==
  /\ client.pc = "first"
  /\ client.url \in Routes
  /\ Middleware(1, client.url, NoHeader, rnd)
  /\ client' = [client EXCEPT !.pc = "first-answered"]

\* the unguarded server answers the plain request
OtherFirst(status) ==
  /\ client.pc = "first"
  /\ client.url = OtherUrl
  /\ resp' = otherResponse(status)
  /\ client' = [client EXCEPT !.pc = "first-answered"]
  /\ UNCHANGED <<now, usedNonces, acceptCount, last, issueCount, conn>>

\* payAndFetch from the first response to its return, its throw, or the
\* await of the retry
ClientFirstDone(rnd) ==
  LET proof == proofFor(config, client.amount, resp.requirement, rnd, now)
      done == [client EXCEPT !.pc = "idle", !.firstStatus = resp.status]
  IN /\ client.pc = "first-answered"
     /\ client' =
          IF resp.status # 402
            THEN IF resp.status = 200
                   THEN [done EXCEPT !.outcome = "returned", !.paid = FALSE,
                                     !.paymentAmount = 0]
                   ELSE [done EXCEPT !.outcome = "threw",
                                     !.error = "Request failed"]
          ELSE IF resp.error = "not json"
            THEN [done EXCEPT !.outcome = "threw",
                              !.error = "Could not parse 402 payment requirement"]
          ELSE IF signPaymentAuthorization(config, proof.to, proof.amount,
                                           proof.resource, proof.nonce,
                                           proof.expiry).threw
            THEN [done EXCEPT !.outcome = "threw",
                              !.error = "PRIVATE_KEY not set"]
          ELSE [client EXCEPT !.pc = "retry", !.firstStatus = 402,
                              !.signed = 1, !.requests = 2,
                              !.header = encodePaymentHeader(proof),
                              !.paymentAmount = proof.amount]
     /\ UNCHANGED <<now, usedNonces, acceptCount, last, issueCount, conn, resp>>

\* the gateway's middleware runs on the retry: it answers, or it awaits next()
GatewayRetry(rnd) ==
  /\ client.pc = "retry"
  /\ Middleware(1, client.url, client.header, rnd)
  /\ client' = [client EXCEPT !.pc = IF conn'[1].pc = "next"
                                       THEN "retry-next" ELSE "retry-answered"]

\* the protected handler answers the retry
HandlerRetry(ok) ==
  /\ client.pc = "retry-next"
  /\ Handler(1, ok)
  /\ client' = [client EXCEPT !.pc = "retry-answered"]

\* a payAndFetch that sends the proof again when the retry is refused
ClientRetryDone_Retrying ==
  /\ client.pc = "retry-answered"
  /\ client' =
       IF resp.status # 200
         THEN [client EXCEPT !.pc = "retry", !.retryStatus = resp.status,
                             !.requests = @ + 1]
         ELSE [client EXCEPT !.pc = "idle", !.retryStatus = 200,
                             !.outcome = "returned", !.paid = TRUE,
                             !.payer = resp.payer]
  /\ UNCHANGED <<now, usedNonces, acceptCount, last, issueCount, conn, resp>>

\* payAndFetch from the retry's response to its return or its throw
ClientRetryDone ==
  /\ client.pc = "retry-answered"
  /\ client' =
       IF resp.status # 200
         THEN [client EXCEPT !.pc = "idle", !.retryStatus = resp.status,
                             !.outcome = "threw", !.error = "Paid request failed"]
         ELSE [client EXCEPT !.pc = "idle", !.retryStatus = 200,
                             !.outcome = "returned", !.paid = TRUE,
                             !.payer = resp.payer]
  /\ UNCHANGED <<now, usedNonces, acceptCount, last, issueCount, conn, resp>>

NoCall == [op |-> "none"]

X402Init ==
  /\ now = 1
  /\ usedNonces = {}
  /\ acceptCount = [pr \in Pairs |-> 0]
  /\ last = NoCall
  /\ issueCount = [n \in RandomNonces |-> 0]
  /\ conn = [r \in 1..MaxReqs |-> IdleConn]
  /\ resp = NoResponse
  /\ client = IdleClient

\* no ledger contract configured, a private key set
DefaultConfig == [privateKey |-> TRUE, paymentLedger |-> "", deployed |-> "none"]

LedgerInit == ContractInit /\ BackendInit

Init == X402Init /\ RegistryInit /\ LedgerInit /\ config = DefaultConfig

\* the same, for a process started in any environment
InitAnyConfig == X402Init /\ RegistryInit /\ LedgerInit /\ config \in Configs

\* the same, for a process that has been running for some time
InitAnyTime ==
  /\ now \in 1..MaxTime
  /\ usedNonces = {}
  /\ acceptCount = [pr \in Pairs |-> 0]
  /\ last = NoCall
  /\ issueCount = [n \in RandomNonces |-> 0]
  /\ conn = [r \in 1..MaxReqs |-> IdleConn]
  /\ resp = NoResponse
  /\ client = IdleClient
  /\ RegistryInit
  /\ LedgerInit
  /\ config = DefaultConfig

ledgerVars == <<contractVars, backendVars>>

vars == <<x402vars, registryVars, ledgerVars>>

\* the verifier called directly, any number of times, as time passes
VerifierNext == (VerifyCall \/ Tick) /\ UNCHANGED <<registryVars, ledgerVars>>

SpecVerifier == Init /\ [][VerifierNext]_vars

\* the issuer called directly
IssuerNext == (IssueCall \/ Tick) /\ UNCHANGED <<registryVars, ledgerVars>>

SpecIssuer == Init /\ [][IssuerNext]_vars

\* the gateway serving requests that overlap, started at any time
GatewayNext ==
  (Request \/ Respond) /\ UNCHANGED <<client, registryVars, ledgerVars>>

SpecGateway == InitAnyTime /\ [][GatewayNext]_vars

\* one client, with or without a private key, calls payAndFetch again and
\* again on the gateway's routes and on an unguarded URL, as time passes
ClientNext ==
  \/ \E url \in Urls, amount \in AmountArgs :
       ClientStart(url, amount) /\ UNCHANGED <<registryVars, ledgerVars>>
  \/ \E rnd \in RandomNonces :
       GatewayFirst(rnd) /\ UNCHANGED <<registryVars, ledgerVars>>
  \/ \E status \in OtherStatuses :
       OtherFirst(status) /\ UNCHANGED <<registryVars, ledgerVars>>
  \/ \E rnd \in RandomNonces :
       ClientFirstDone(rnd) /\ UNCHANGED <<registryVars, ledgerVars>>
  \/ \E rnd \in RandomNonces :
       GatewayRetry(rnd) /\ UNCHANGED <<registryVars, ledgerVars>>
  \/ \E ok \in BOOLEAN : HandlerRetry(ok) /\ UNCHANGED <<registryVars, ledgerVars>>
  \/ ClientRetryDone /\ UNCHANGED <<registryVars, ledgerVars>>
  \/ Tick /\ UNCHANGED <<registryVars, ledgerVars>>

\* the process has a private key or has none
InitAnyKey ==
  /\ X402Init
  /\ RegistryInit
  /\ LedgerInit
  /\ config \in {DefaultConfig, [DefaultConfig EXCEPT !.privateKey = FALSE]}

SpecClient == InitAnyKey /\ [][ClientNext]_vars

\* the registry's transactions as blocks pass: one wallet registers, every
\* sender calls
RegistryNext ==
  \/ \E sender \in Callers, newLedger \in {ZeroAddress, LedgerAddress} :
       SetPaymentLedger(sender, newLedger) /\ UNCHANGED <<x402vars, ledgerVars>>
  \/ \E name \in AgentNames, dailyBudget \in Budgets :
       RegisterAgent(AgentWallet, name, dailyBudget) /\ UNCHANGED <<x402vars, ledgerVars>>
  \/ \E sender \in Accounts : DeactivateAgent(sender) /\ UNCHANGED <<x402vars, ledgerVars>>
  \/ \E sender \in Accounts, newBudget \in Budgets :
       UpdateBudget(sender, newBudget) /\ UNCHANGED <<x402vars, ledgerVars>>
  \/ \E sender \in Callers, agent \in Accounts, amount \in SpendAmounts :
       RecordSpend(sender, agent, amount) /\ UNCHANGED <<x402vars, ledgerVars>>
  \/ ChainTick /\ UNCHANGED <<x402vars, ledgerVars>>

SpecRegistry == Init /\ [][RegistryNext]_vars

\* agents register and log payments on the contract as blocks pass
LedgerNext ==
  \/ SetPaymentLedger(OwnerAddress, LedgerAddress)
       /\ UNCHANGED <<x402vars, ledgerVars>>
  \/ \E sender \in Accounts, dailyBudget \in LedgerBudgets :
       RegisterAgent(sender, "PayMind", dailyBudget)
         /\ UNCHANGED <<x402vars, ledgerVars>>
  \/ \E sender \in Accounts, dataSource \in DataSources, amount \in LogAmounts,
        queryType \in QueryTypes :
       LogPayment(sender, dataSource, amount, queryType)
         /\ UNCHANGED <<x402vars, backendVars>>
  \/ ChainTick /\ UNCHANGED <<x402vars, ledgerVars>>

SpecLedger == Init /\ [][LedgerNext]_vars

\* the life of the agents: they register, change their budget, deactivate,
\* log payments on the contract, and the ledger's address calls recordSpend
LifecycleNext ==
  \/ SetPaymentLedger(OwnerAddress, LedgerAddress)
       /\ UNCHANGED <<x402vars, ledgerVars>>
  \/ \E sender \in Accounts, dailyBudget \in LedgerBudgets :
       RegisterAgent(sender, "PayMind", dailyBudget)
         /\ UNCHANGED <<x402vars, ledgerVars>>
  \/ \E sender \in Accounts : DeactivateAgent(sender) /\ UNCHANGED <<x402vars, ledgerVars>>
  \/ \E sender \in Accounts, newBudget \in LedgerBudgets :
       UpdateBudget(sender, newBudget) /\ UNCHANGED <<x402vars, ledgerVars>>
  \/ \E agent \in Accounts :
       RecordSpend(LedgerAddress, agent, 5) /\ UNCHANGED <<x402vars, ledgerVars>>
  \/ \E sender \in Accounts, amount \in LogAmounts :
       LogPayment(sender, "dune_analytics", amount, "price_feed")
         /\ UNCHANGED <<x402vars, backendVars>>
  \/ ChainTick /\ UNCHANGED <<x402vars, ledgerVars>>

SpecLifecycle == Init /\ [][LifecycleNext]_vars

\* agents register, change their own budget and log payments as blocks pass
BudgetNext ==
  \/ SetPaymentLedger(OwnerAddress, LedgerAddress)
       /\ UNCHANGED <<x402vars, ledgerVars>>
  \/ \E sender \in Accounts, dailyBudget \in LedgerBudgets :
       RegisterAgent(sender, "PayMind", dailyBudget)
         /\ UNCHANGED <<x402vars, ledgerVars>>
  \/ \E sender \in Accounts, newBudget \in Budgets :
       UpdateBudget(sender, newBudget) /\ UNCHANGED <<x402vars, ledgerVars>>
  \/ \E sender \in Accounts, amount \in LogAmounts :
       LogPayment(sender, "dune_analytics", amount, "price_feed")
         /\ UNCHANGED <<x402vars, backendVars>>
  \/ ChainTick /\ UNCHANGED <<x402vars, ledgerVars>>

SpecBudget == Init /\ [][BudgetNext]_vars

\* the backend, started in any environment, logs its payments as time
\* passes, while its wallet registers and logs a payment on the contract
BackendNext ==
  \/ SetPaymentLedger(OwnerAddress, LedgerAddress)
       /\ UNCHANGED <<x402vars, ledgerVars>>
  \/ \E dailyBudget \in LedgerBudgets :
       RegisterAgent(AgentWallet, "PayMind", dailyBudget)
         /\ UNCHANGED <<x402vars, ledgerVars>>
  \/ \E amount \in LogAmounts :
       LogPayment(AgentWallet, "dune_analytics", amount, "price_feed")
         /\ UNCHANGED <<x402vars, backendVars>>
  \/ \E i \in 1..MaxCalls, serviceType \in ServiceTypes :
       BackendLogPayment(i, serviceType) /\ UNCHANGED x402vars
  \/ \E i \in 1..MaxCalls, reachable \in BOOLEAN :
       BackendSubmitted(i, reachable) /\ UNCHANGED x402vars
  \/ \E i \in 1..MaxCalls, receiptOk \in BOOLEAN :
       BackendMined(i, receiptOk) /\ UNCHANGED x402vars
  \/ Tick /\ UNCHANGED <<registryVars, ledgerVars>>

SpecBackend == InitAnyConfig /\ [][BackendNext]_vars

(***************************************************************************)
(* Claims about verifyPaymentProof                                         *)
(***************************************************************************)
\* the latest call was a verification of a proof whose signature recovers to
\* proof.from and whose amount and resource are the expected ones
LastWellFormed ==
  /\ last.op = "verify"
  /\ last.proof.amount >= last.expectedAmount
  /\ last.proof.resource = last.expectedResource
  /\ \E w \in Wallets :
       /\ last.proof.signature =
            signTypedData(w, typedValue(last.proof.from, last.proof.to,
                            last.proof.amount, last.proof.resource,
                            last.proof.nonce, last.proof.expiry))
       /\ toLowerCase(walletAddress(w)) = toLowerCase(last.proof.from)

C3_ExpiredRejected ==
  (last.op = "verify" /\ last.proof.expiry < last.at)
    => /\ ~last.valid
       /\ last.reason = "Payment proof expired"
       /\ last.inserted = {}
       /\ last.removed = {}

\* an expired proof that is otherwise acceptable has just been rejected
C3_Witness ==
  /\ LastWellFormed
  /\ ~last.replayed
  /\ last.proof.expiry < last.at
  /\ ~last.valid

\* C4 as claimed: a proof is accepted only while now < expiry.
C4_AcceptedOnlyBeforeExpiry ==
  (last.op = "verify" /\ last.valid) => last.at < last.proof.expiry

\* C4 as amended: a proof is accepted only while now <= expiry, and at the
\* instant now = expiry a proof that is otherwise acceptable is accepted.
C4_AcceptedUntilExpiry ==
  /\ (last.op = "verify" /\ last.valid) => last.at <= last.proof.expiry
  /\ (LastWellFormed /\ ~last.replayed /\ last.at = last.proof.expiry)
       => last.valid

\* a proof verified at the instant now = expiry has just been accepted
C4_Witness ==
  /\ last.op = "verify"
  /\ last.valid
  /\ last.at = last.proof.expiry

C2_OneAcceptance ==
  /\ \A pr \in Pairs : acceptCount[pr] <= 1
  /\ \A r1, r2 \in 1..MaxReqs :
       (r1 # r2 /\ conn[r1].pc = "next" /\ conn[r2].pc = "next")
         => conn[r1].pair # conn[r2].pair
  /\ (resp.error = "Payment Rejected" /\ resp.reason = "Nonce already used")
       => acceptCount[resp.pair] = 1

\* two requests with one (from, nonce) overlap: the first is still waiting
\* for its data when the second is rejected as a replay
C2_Witness ==
  \E r \in 1..MaxReqs :
    /\ conn[r].pc = "next"
    /\ resp.error = "Payment Rejected"
    /\ resp.reason = "Nonce already used"
    /\ resp.pair = conn[r].pair

\* C6: no nonce is issued twice: createPaymentRequirement never returns a
\* Requirement whose nonce an earlier Requirement carried.
C6_NoncesDistinct ==
  /\ \A n \in RandomNonces : issueCount[n] <= 1
  /\ last.op = "issue" => ~last.issuedBefore

(***************************************************************************)
(* Claims about the AgentRegistry                                          *)
(***************************************************************************)
\* the latest call was recordSpend, sent by the linked ledger
LastRecordSpend ==
  /\ chainLast.op = "recordSpend"
  /\ chainLast.sender = paymentLedger

\* the agent of the latest call was registered and active when it was made
LastAgentActive ==
  /\ chainLast.before.wallet # ZeroAddress
  /\ chainLast.before.active

\* C7: after a successful recordSpend spentToday <= dailyBudget; a recordSpend
\* that would take the day's spend above the budget is rejected; a rejected
\* recordSpend leaves the agent's spentToday (its whole record) unchanged.
C7_BudgetNeverExceeded ==
  LastRecordSpend =>
    /\ chainLast.ok =>
         agents[chainLast.agent].spentToday <= agents[chainLast.agent].dailyBudget
    /\ (/\ LastAgentActive
        /\ chainLast.before.lastResetDay = currentDay(chainLast.at)
        /\ chainLast.before.spentToday + chainLast.amount
             > chainLast.before.dailyBudget)
         => ~chainLast.ok
    /\ ~chainLast.ok => agents[chainLast.agent] = chainLast.before

\* scenario A, scaled: budget 10, 5 spent today, recordSpend(6) is rejected
\* and spentToday stays 5
C7_Witness ==
  /\ LastRecordSpend
  /\ LastAgentActive
  /\ chainLast.before.dailyBudget = 10
  /\ chainLast.before.spentToday = 5
  /\ chainLast.before.lastResetDay = currentDay(chainLast.at)
  /\ chainLast.amount = 6
  /\ ~chainLast.ok
  /\ chainLast.error = "exceeds daily budget"
  /\ agents[chainLast.agent].spentToday = 5

\* C8: when lastResetDay < today, canSpend and recordSpend compare the amount
\* with the budget as if nothing was spent: the call is allowed exactly when
\* amount <= dailyBudget, and a successful recordSpend leaves spentToday =
\* amount and lastResetDay = today.
C8_NewDayStartsAtZero ==
  /\ \A a \in Accounts, amount \in 0..UintMax :
       (/\ agents[a].wallet # ZeroAddress
        /\ agents[a].active
        /\ agents[a].lastResetDay < currentDay(blockTime))
         => /\ ~canSpend(agents, a, amount, blockTime).reverts
            /\ canSpend(agents, a, amount, blockTime).value
                 = (amount <= agents[a].dailyBudget)
  /\ (/\ LastRecordSpend
      /\ LastAgentActive
      /\ chainLast.before.lastResetDay < currentDay(chainLast.at))
       => /\ chainLast.ok = (chainLast.amount <= chainLast.before.dailyBudget)
          /\ chainLast.ok =>
               /\ agents[chainLast.agent].spentToday = chainLast.amount
               /\ agents[chainLast.agent].lastResetDay = currentDay(chainLast.at)

\* on a new day, with yesterday's spend still stored, a recordSpend of the
\* whole budget has succeeded
C8_Witness ==
  /\ LastRecordSpend
  /\ LastAgentActive
  /\ chainLast.before.lastResetDay < currentDay(chainLast.at)
  /\ chainLast.before.spentToday > 0
  /\ chainLast.amount = chainLast.before.dailyBudget
  /\ chainLast.ok
  /\ agents[chainLast.agent].spentToday = chainLast.amount

\* C9: in every state, for every agent and amount, canSpend returns true
\* exactly when recordSpend sent by the ledger would succeed.
C9_CanSpendIffRecordSpend ==
  paymentLedger = LedgerAddress =>
    \A a \in Accounts, amount \in 0..UintMax :
      (/\ ~canSpend(agents, a, amount, blockTime).reverts
       /\ canSpend(agents, a, amount, blockTime).value)
        <=> recordSpend(agents, paymentLedger, LedgerAddress, a, amount,
                        blockTime).ok

\* a new day has begun for an agent whose stored spentToday alone would
\* forbid the amount: both functions allow it, and both forbid a larger one
C9_Witness ==
  /\ paymentLedger = LedgerAddress
  /\ \E a \in Accounts, amount \in 1..UintMax :
       /\ agents[a].lastResetDay < currentDay(blockTime)
       /\ agents[a].spentToday + amount > agents[a].dailyBudget
       /\ canSpend(agents, a, amount, blockTime).value
       /\ recordSpend(agents, paymentLedger, LedgerAddress, a, amount, blockTime).ok
       /\ ~canSpend(agents, a, amount + 1, blockTime).value
       /\ ~recordSpend(agents, paymentLedger, LedgerAddress, a, amount + 1,
                       blockTime).ok

(***************************************************************************)
(* Claims about the ledger                                                 *)
(***************************************************************************)
RECURSIVE sumAmounts(_)
\* the sum of amount over a sequence of payment records
sumAmounts(records) ==
  IF records = <<>> THEN 0
  ELSE Head(records).amount + sumAmounts(Tail(records))

\* the on-chain half of C10: the contract's aggregates of every address equal
\* the sum and the number of its records in payments
C10_OnChainTotalsEqualRecords ==
  \A a \in LedgerKeys :
    /\ totalSpentByAgent[a] = sumAmounts(paymentsOf(ledgerStorage, a))
    /\ paymentCountByAgent[a] = Len(paymentsOf(ledgerStorage, a))

\* C10: after any sequence of commits the total spent reported for an agent
\* equals the sum of amount over the committed records whose agent it is, and
\* the reported count their number, on the contract (totalSpentByAgent,
\* paymentCountByAgent) and in the backend (getAgentStats, compared with the
\* records of the tier it reads); an agent with no record has zero stats.
C10_TotalsEqualRecords ==
  /\ C10_OnChainTotalsEqualRecords
  /\ \A a \in LedgerKeys, readOk \in BOOLEAN :
       LET stats == getAgentStats(config, ledgerStorage, inMemoryStats, a, readOk)
           records == IF getReadOnlyContract(config) # "null" /\ readOk
                        THEN paymentsOf(ledgerStorage, a)
                        ELSE inMemoryRecordsOf(inMemoryLedger, a)
       IN /\ stats.totalSpent = sumAmounts(records)
          /\ stats.queryCount = Len(records)

(***************************************************************************)
(* Claims about the backend's logPayment                                   *)
(***************************************************************************)
\* a logPayment call of the backend has returned
LastLogPayment == backendLast.op = "logPayment"

\* C11: when the authoritative store's budget check rejects a spend, the
\* attempt fails: no record is committed in either tier, no aggregate changes,
\* and the call does not report success.
C11_BudgetRejectionCommitsNothing ==
  (LastLogPayment /\ backendLast.budgetRejected) =>
    /\ backendLast.onContract = 0
    /\ backendLast.inMemory = 0
    /\ inMemoryStats = backendLast.statsBefore
    /\ ~backendLast.success

\* C12: every logPayment call of the backend leaves exactly one committed
\* record across the two tiers: never none, and never one on the contract
\* and one in memory.
C12_ExactlyOneRecord ==
  LastLogPayment => backendLast.onContract + backendLast.inMemory = 1

\* the records a read returns hold the record of the latest call
returnsLast(read) ==
  \E k \in 1..Len(read.records) :
    read.records[k].txHash \in {backendLast.txHash, id(backendLast.txHash)}

\* C13: reads select the tier as commits do: a read that follows a logPayment
\* returns the record that call committed for the agent, and a read that
\* cannot reach the configured contract does not answer with the in-memory
\* ledger's records.
C13_ReadsFollowCommits ==
  /\ LastLogPayment =>
       returnsLast(getPaymentsByAgent(config, ledgerStorage, inMemoryLedger,
                                      backendLast.agent, TRUE))
  /\ \A addr \in LedgerKeys :
       (hasContract(config) /\ inMemoryRecordsOf(inMemoryLedger, addr) # <<>>)
         => getPaymentsByAgent(config, ledgerStorage, inMemoryLedger, addr,
                               FALSE).tier # "memory"

(***************************************************************************)
(* Claims about payAndFetch                                                *)
(***************************************************************************)
\* a payAndFetch call has returned or thrown
ClientDone == client.pc = "idle" /\ client.outcome # "none"

C15_HandshakeAccepted ==
  (/\ ClientDone
   /\ client.url \in Routes
   /\ client.amount = NoAmount
   /\ config.privateKey)
    => /\ client.requests = 2
       /\ client.retryStatus \in {200, 500}
       /\ client.retryStatus = 200 =>
            /\ client.outcome = "returned"
            /\ client.paid
            /\ client.paymentAmount = client.url.amount
            /\ client.payer = walletAddress("agent")

(***************************************************************************)
(* Claims about the gateway middleware                                     *)
(***************************************************************************)
\* the Requirement q was made for the route and at the time of the latest run
freshFor(q) ==
  /\ q.resource = last.route.resource
  /\ q.amount = last.route.amount
  /\ q.receiver = DATA_PROVIDER
  /\ q.expiry = last.at + EXPIRY_SECONDS
  /\ q.nonce \in RandomNonces

\* C16: a run of the middleware ends in one of four ways: without a header a
\* 402 challenge with a fresh Requirement; with a header that does not parse
\* into a complete proof a 400 without a Requirement; with a proof the
\* verifier rejects a 402 with the verifier's reason and a fresh Requirement;
\* with a proof the verifier accepts the context gets {signer, amount} and the
\* handler is invoked. A request is in (or past) its handler only if
\* verifyPaymentProof returned valid for that request.
C16_FourOutcomes ==
  /\ \A r \in 1..MaxReqs : conn[r].pc = "next" => conn[r].valid
  /\ resp.status \in {200, 500} => resp.verified
  /\ last.op = "request" =>
       /\ last.absent =>
            /\ ~last.called
            /\ last.response.status = 402
            /\ last.response.error = "Payment Required"
            /\ last.response.reason = ""
            /\ freshFor(last.response.requirement)
            /\ last.ctx.pc = "idle"
       /\ (~last.absent /\ ~last.parsed) =>
            /\ ~last.called
            /\ last.response.status = 400
            /\ last.response.error = "Invalid Payment"
            /\ last.response.requirement = NoRequirement
            /\ last.ctx.pc = "idle"
       /\ (~last.absent /\ last.parsed) => last.called
       /\ (last.called /\ ~last.valid) =>
            /\ last.response.status = 402
            /\ last.response.error = "Payment Rejected"
            /\ last.response.reason = last.reason
            /\ last.reason # ""
            /\ freshFor(last.response.requirement)
            /\ last.ctx.pc = "idle"
       /\ (last.called /\ last.valid) =>
            /\ last.response = NoResponse
            /\ last.ctx.pc = "next"
            /\ last.ctx.valid
            /\ last.ctx.x402_payer = last.signer
            /\ last.ctx.x402_amount = last.amount
       /\ last.ctx.pc = "next" => (last.called /\ last.valid)

\* while an accepted request waits in its handler, another request's proof
\* has just been rejected with the verifier's reason and a fresh Requirement
C16_Witness ==
  /\ last.op = "request"
  /\ last.called
  /\ ~last.valid
  /\ last.response.error = "Payment Rejected"
  /\ last.response.reason = "Insufficient payment"
  /\ \E r \in 1..MaxReqs : conn[r].pc = "next" /\ conn[r].valid

(***************************************************************************)
(* Claims about the agent lifecycle                                        *)
(***************************************************************************)
\* C17: updateBudget and deactivateAgent succeed only for an agent that is
\* registered and active; sent by an unregistered wallet or by a deactivated
\* agent they fail and leave the agent's record as it was. registerAgent
\* succeeds only for an unregistered wallet, and then spentToday = 0,
\* lastResetDay = today and active = true.
C17_LifecycleGuards ==
  /\ (chainLast.op \in {"updateBudget", "deactivateAgent"} /\ chainLast.ok)
       => LastAgentActive
  /\ (chainLast.op \in {"updateBudget", "deactivateAgent"} /\ ~LastAgentActive)
       => (~chainLast.ok /\ agents[chainLast.agent] = chainLast.before)
  /\ (chainLast.op = "registerAgent" /\ chainLast.ok)
       => /\ chainLast.before.wallet = ZeroAddress
          /\ agents[chainLast.agent].wallet = chainLast.agent
          /\ agents[chainLast.agent].spentToday = 0
          /\ agents[chainLast.agent].lastResetDay = currentDay(chainLast.at)
          /\ agents[chainLast.agent].active
  /\ (chainLast.op = "registerAgent" /\ chainLast.before.wallet # ZeroAddress)
       => (~chainLast.ok /\ agents[chainLast.agent] = chainLast.before)

\* the part of C17 about registerAgent, and about unregistered senders
C17_RegisterOnlyUnregistered ==
  /\ (chainLast.op \in {"updateBudget", "deactivateAgent"}
        /\ chainLast.before.wallet = ZeroAddress)
       => (~chainLast.ok /\ agents[chainLast.agent] = chainLast.before)
  /\ (chainLast.op = "registerAgent" /\ chainLast.ok)
       => /\ chainLast.before.wallet = ZeroAddress
          /\ agents[chainLast.agent].spentToday = 0
          /\ agents[chainLast.agent].lastResetDay = currentDay(chainLast.at)
          /\ agents[chainLast.agent].active
  /\ (chainLast.op = "registerAgent" /\ chainLast.before.wallet # ZeroAddress)
       => (~chainLast.ok /\ agents[chainLast.agent] = chainLast.before)

\* the spend counters of agent a differ between the two states of a step
spendChanged(a) ==
  \/ agents'[a].spentToday # agents[a].spentToday
  \/ agents'[a].lastResetDay # agents[a].lastResetDay

\* C18: a recordSpend sent by any caller other than the configured
\* paymentLedger is rejected and changes nothing, and in every step an agent's
\* spentToday and lastResetDay change only through a successful recordSpend
\* sent by the paymentLedger for that agent, or through its registration.
C18_OnlyLedgerRecordsSpend ==
  /\ [](chainLast.op = "recordSpend" /\ chainLast.sender # paymentLedger
          => (~chainLast.ok /\ agents[chainLast.agent] = chainLast.before))
  /\ [][\A a \in Accounts :
          spendChanged(a) =>
            /\ chainLast'.ok
            /\ chainLast'.agent = a
            /\ \/ /\ chainLast'.op = "recordSpend"
                  /\ chainLast'.sender = paymentLedger
                  /\ paymentLedger # ZeroAddress
               \/ chainLast'.op = "registerAgent"]_vars

\* with the ledger linked, a spend within the budget of an active agent has
\* just been refused because its sender is not the ledger
C18_Witness ==
  /\ chainLast.op = "recordSpend"
  /\ paymentLedger = LedgerAddress
  /\ chainLast.sender \in Accounts
  /\ LastAgentActive
  /\ chainLast.amount > 0
  /\ canSpend(agents, chainLast.agent, chainLast.amount, chainLast.at).value
  /\ ~chainLast.ok
  /\ chainLast.error = "caller is not PaymentLedger"

(***************************************************************************)
(* Claims about the order of the verifier's checks                         *)
(***************************************************************************)
\* the signature of the latest verified proof is not one that a key whose
\* address is proof.from made over the proof's fields
LastBadSignature ==
  \/ last.proof.signature = Malformed
  \/ \A w \in Wallets :
       \/ last.proof.signature #
            signTypedData(w, typedValue(last.proof.from, last.proof.to,
                            last.proof.amount, last.proof.resource,
                            last.proof.nonce, last.proof.expiry))
       \/ toLowerCase(walletAddress(w)) # toLowerCase(last.proof.from)

\* C19: verifyPaymentProof reports the first failing check in the order
\* expiry, replay, amount, resource, signature: an expired proof gets the
\* expiry reason whatever else is wrong with it, an unexpired replayed one
\* 'Nonce already used', an unexpired fresh underpaid one the insufficient
\* payment reason, then resource mismatch, then the signature reasons.
C19_FirstFailingCheck ==
  last.op = "verify" =>
    LET expired == last.proof.expiry < last.at
        underpaid == last.proof.amount < last.expectedAmount
        wrongResource == last.proof.resource # last.expectedResource
    IN /\ expired => last.reason = "Payment proof expired"
       /\ (~expired /\ last.replayed) => last.reason = "Nonce already used"
       /\ (~expired /\ ~last.replayed /\ underpaid)
            => last.reason = "Insufficient payment"
       /\ (~expired /\ ~last.replayed /\ ~underpaid /\ wrongResource)
            => last.reason = "Resource mismatch"
       /\ (~expired /\ ~last.replayed /\ ~underpaid /\ ~wrongResource
             /\ LastBadSignature)
            => last.reason \in {"Signature does not match claimed sender",
                                "Verification error"}
       /\ last.valid <=> last.reason = ""

\* a proof that is replayed, underpaid, for another resource and badly signed
\* has just been rejected as a replay
C19_Witness ==
  /\ last.op = "verify"
  /\ last.proof.expiry >= last.at
  /\ last.replayed
  /\ last.proof.amount < last.expectedAmount
  /\ last.proof.resource # last.expectedResource
  /\ LastBadSignature
  /\ ~last.valid
  /\ last.reason = "Nonce already used"

\* an expired, replayed proof has just been rejected as expired
C19_WitnessExpired ==
  /\ last.op = "verify"
  /\ last.proof.expiry < last.at
  /\ last.replayed
  /\ last.reason = "Payment proof expired"

(***************************************************************************)
(* Claims about deactivation                                               *)
(***************************************************************************)
\* agent a is registered and not active: it has deactivated
Deactivated(a) == agents[a].wallet # ZeroAddress /\ ~agents[a].active

\* C20: once an agent has deactivated, no step sets active back to true
\* (registerAgent reverts for it), canSpend returns false for it, every
\* recordSpend for it fails, and no on-chain logPayment of it is recorded.
C20_DeactivationTerminal ==
  /\ [][\A a \in Accounts :
          Deactivated(a) =>
            /\ ~agents'[a].active
            /\ agents'[a].wallet = agents[a].wallet
            /\ agents'[a].spentToday = agents[a].spentToday
            /\ paymentCountByAgent'[a] = paymentCountByAgent[a]
            /\ totalSpentByAgent'[a] = totalSpentByAgent[a]
            /\ paymentsOf(ledgerStorage, a)
                 = SelectSeq(payments', LAMBDA p : p.agent = a)]_vars
  /\ [](\A a \in Accounts, amount \in 0..UintMax :
          Deactivated(a) =>
            /\ ~canSpend(agents, a, amount, blockTime).value
            /\ ~recordSpend(agents, paymentLedger, paymentLedger, a, amount,
                            blockTime).ok
            /\ ~logPayment(ledgerStorage, agents, paymentLedger, a,
                           "dune_analytics", amount, DataHash, "price_feed",
                           blockTime).ok)
  /\ []((chainLast.op \in {"recordSpend", "registerAgent"}
           /\ chainLast.before.wallet # ZeroAddress /\ ~chainLast.before.active)
          => (~chainLast.ok /\ agents[chainLast.agent] = chainLast.before))

\* an agent that logged a payment and then deactivated: on a later day the
\* ledger's recordSpend of an amount within its budget has just been refused
C20_Witness ==
  /\ chainLast.op = "recordSpend"
  /\ chainLast.sender = paymentLedger
  /\ Deactivated(chainLast.agent)
  /\ paymentCountByAgent[chainLast.agent] > 0
  /\ chainLast.amount > 0
  /\ spentForCheck(chainLast.before, chainLast.at) + chainLast.amount
       <= chainLast.before.dailyBudget
  /\ ~chainLast.ok
  /\ chainLast.error = "agent not active"

(***************************************************************************)
(* Claims about the daily budget and the registry's records                *)
(***************************************************************************)
\* the payments agent a logged on the contract during the current day
paymentsToday(a) ==
  SelectSeq(payments,
            LAMBDA p : p.agent = a
                         /\ currentDay(p.timestamp) = currentDay(blockTime))

\* C21: within one day the amounts of the payments an agent logs sum to at
\* most the daily budget the agent registered with. (The contract gives its
\* owner no function that changes a budget, so the claim's exception for a
\* budget changed by the owner never applies.)
C21_BudgetNeedsOwner ==
  \A a \in Accounts :
    agents[a].wallet # ZeroAddress
      => sumAmounts(paymentsToday(a)) <= registeredBudget[a]

(***************************************************************************)
(* Claims about the replay set                                             *)
(***************************************************************************)
\* the replay key of a (from, nonce) pair
keyOfPair(pr) == pr[1] \o <<"-", ToString(pr[2])>>

\* the (from, nonce) the latest call of the verifier was about, whether the
\* verifier was called directly or by the middleware
lastKey(l) ==
  IF l.op = "verify" THEN nonceKey(l.proof) ELSE keyOfPair(l.ctx.pair)

\* C22: the replay set changes only by the insertion of the (from, nonce) of
\* the proof accepted in that step: a step whose verification rejects (for
\* any reason, a thrown error included) leaves it unchanged, and no step
\* removes an entry.
C22_ReplaySetGrowsOnAccept ==
  [][/\ usedNonces \subseteq usedNonces'
     /\ usedNonces' # usedNonces =>
          /\ last'.op \in {"verify", "request"}
          /\ last'.valid
          /\ usedNonces' = usedNonces \cup {lastKey(last')}
     /\ (last'.op \in {"verify", "request"} /\ last' # last /\ ~last'.valid)
          => usedNonces' = usedNonces]_vars

\* with entries in the replay set, a proof whose signature cannot be decoded
\* has just been rejected: the set is as it was and the proof's (from, nonce)
\* is still free
C22_Witness ==
  /\ last.op = "verify"
  /\ last.proof.signature = Malformed
  /\ last.reason = "Verification error"
  /\ ~last.valid
  /\ usedNonces # {}
  /\ last.inserted = {}
  /\ last.removed = {}
  /\ nonceKey(last.proof) \notin usedNonces

\* a (from, nonce) that was rejected as underpaid has been accepted by a later
\* request, which waits in its handler
C22_WitnessAcceptedLater ==
  /\ resp.error = "Payment Rejected"
  /\ resp.reason = "Insufficient payment"
  /\ \E r \in 1..MaxReqs :
       /\ conn[r].pc = "next"
       /\ conn[r].pair = resp.pair
       /\ keyOfPair(resp.pair) \in usedNonces

\* the latest recordSpend was made on a later day than the agent's last reset
LastOnNewDay == chainLast.before.lastResetDay < currentDay(chainLast.at)

\* C23: a rejected recordSpend (sender not the ledger, agent unregistered or
\* inactive, amount above the remaining budget) leaves the agent record
\* exactly as before, the day reset made before the budget check included; a
\* successful one adds exactly amount to spentToday (counted from 0 on a new
\* day) and leaves wallet, name, dailyBudget, active and registeredAt alone.
C23_RecordSpendAllOrNothing ==
  chainLast.op = "recordSpend" =>
    LET before == chainLast.before
        after == agents[chainLast.agent]
        spent == IF LastOnNewDay THEN 0 ELSE before.spentToday
    IN /\ (\/ chainLast.sender # paymentLedger
           \/ before.wallet = ZeroAddress
           \/ ~before.active
           \/ spent + chainLast.amount > before.dailyBudget) => ~chainLast.ok
       /\ ~chainLast.ok => after = before
       /\ chainLast.ok =>
            /\ after.spentToday = spent + chainLast.amount
            /\ after.lastResetDay =
                 IF LastOnNewDay THEN currentDay(chainLast.at)
                                 ELSE before.lastResetDay
            /\ after.wallet = before.wallet
            /\ after.name = before.name
            /\ after.dailyBudget = before.dailyBudget
            /\ after.active = before.active
            /\ after.registeredAt = before.registeredAt

\* on a new day, with yesterday's spend still in the record, the ledger's
\* recordSpend of more than the budget has just been rejected
C23_Witness ==
  /\ LastRecordSpend
  /\ LastAgentActive
  /\ LastOnNewDay
  /\ chainLast.before.spentToday > 0
  /\ chainLast.amount > chainLast.before.dailyBudget
  /\ ~chainLast.ok
  /\ agents[chainLast.agent] = chainLast.before

\* C24: no step decreases any agent's lastResetDay (the block time never
\* decreases), and in every state lastResetDay <= today.
C24_ResetDayMonotone ==
  /\ [][\A a \in Accounts :
          agents'[a].lastResetDay >= agents[a].lastResetDay]_vars
  /\ [](\A a \in Accounts : agents[a].lastResetDay <= currentDay(blockTime))

\* an agent registered on day 0 has just spent on day 1: its lastResetDay
\* moved from 0 to 1
C24_Witness ==
  /\ LastRecordSpend
  /\ chainLast.ok
  /\ chainLast.before.lastResetDay = 0
  /\ agents[chainLast.agent].lastResetDay = 1
  /\ currentDay(blockTime) = 1

(***************************************************************************)
(* Claims about the record sequences                                       *)
(***************************************************************************)
\* sequence s is the beginning of sequence t, which has at most one more record
extendsByAtMostOne(s, t) ==
  /\ Len(s) <= Len(t)
  /\ Len(t) <= Len(s) + 1
  /\ SubSeq(t, 1, Len(s)) = s

\* C25: in both tiers every step keeps the existing records as a prefix and
\* appends at most one; the commit of a backend call that has just returned
\* appended exactly the records it reports, its in-memory record being the
\* last of the list; no length ever decreases.
C25_AppendOnly ==
  [][/\ extendsByAtMostOne(payments, payments')
     /\ extendsByAtMostOne(inMemoryLedger, inMemoryLedger')
     /\ getPaymentCount([payments |-> payments'])
          >= getPaymentCount([payments |-> payments])
     /\ backendLast' # backendLast =>
          /\ Len(payments') = Len(payments) + backendLast'.onContract
          /\ Len(inMemoryLedger') = Len(inMemoryLedger) + backendLast'.inMemory
          /\ backendLast'.inMemory = 1 =>
               /\ inMemoryLedger'[Len(inMemoryLedger')].txHash = backendLast'.txHash
               /\ inMemoryLedger'[Len(inMemoryLedger')].amount = backendLast'.amount]_vars

\* a second record has just been appended to the in-memory list
C25_Witness ==
  /\ LastLogPayment
  /\ backendLast.inMemory = 1
  /\ Len(inMemoryLedger) = 2
  /\ inMemoryLedger[2].txHash = backendLast.txHash

\* the payments of agent a stamped with the day of its last reset
paymentsOfResetDay(a) ==
  SelectSeq(payments,
            LAMBDA p : p.agent = a
                         /\ currentDay(p.timestamp) = agents[a].lastResetDay)

\* C26: the contract's logPayment is one unit with the registry: it fails and
\* leaves registry and ledger as they were (at least for an empty dataSource
\* or queryType, a zero amount or canSpend false), or it succeeds, and then
\* the sender's spentToday has grown by amount, one record with that amount is
\* appended and the aggregates are updated. In every state the spend the
\* registry holds for an agent's current day is the sum of its records of
\* that day.
C26_LogPaymentTransactional ==
  /\ [](\A a \in Accounts :
          agents[a].spentToday = sumAmounts(paymentsOfResetDay(a)))
  /\ [](\A sender \in Accounts, dataSource \in DataSources,
           amount \in LogAmounts, queryType \in QueryTypes :
          LET res == logPayment(ledgerStorage, agents, paymentLedger, sender,
                                dataSource, amount, DataHash, queryType, blockTime)
          IN /\ (\/ dataSource = ""
                 \/ amount = 0
                 \/ queryType = ""
                 \/ ~canSpend(agents, sender, amount, blockTime).value)
                  => ~res.ok
             /\ ~res.ok => (res.storage = ledgerStorage /\ res.agents = agents)
             /\ res.ok =>
                  /\ res.agents[sender].spentToday
                       = spentForCheck(agents[sender], blockTime) + amount
                  /\ \A other \in Accounts \ {sender} :
                       res.agents[other] = agents[other]
                  /\ res.storage.payments =
                       Append(payments,
                              [agent |-> sender, dataSource |-> dataSource,
                               amount |-> amount, dataHash |-> DataHash,
                               timestamp |-> blockTime, queryType |-> queryType])
                  /\ res.storage.totalSpentByAgent[sender]
                       = totalSpentByAgent[sender] + amount
                  /\ res.storage.paymentCountByAgent[sender]
                       = paymentCountByAgent[sender] + 1
                  /\ res.storage.spentBySourceByAgent[sender][dataSource]
                       = spentBySourceByAgent[sender][dataSource] + amount)
  /\ [][/\ payments' # payments =>
             LET p == payments'[Len(payments')]
             IN /\ payments' = Append(payments, p)
                /\ agents'[p.agent].spentToday
                     = spentForCheck(agents[p.agent], blockTime) + p.amount
                /\ totalSpentByAgent'[p.agent]
                     = totalSpentByAgent[p.agent] + p.amount
        /\ (payments' = payments /\ chainLast' = chainLast) =>
             /\ agents' = agents
             /\ totalSpentByAgent' = totalSpentByAgent
             /\ paymentCountByAgent' = paymentCountByAgent
             /\ spentBySourceByAgent' = spentBySourceByAgent]_vars

\* an agent has logged a payment and spent it in the registry, and its next
\* payment would be refused for the budget
C26_Witness ==
  \E a \in Accounts :
    /\ Len(paymentsOf(ledgerStorage, a)) = 1
    /\ agents[a].spentToday = 5
    /\ totalSpentByAgent[a] = 5
    /\ currentDay(blockTime) = agents[a].lastResetDay
    /\ ~canSpend(agents, a, 5, blockTime).value

(***************************************************************************)
(* Claims about the proof the client sends                                 *)
(***************************************************************************)
\* the client has signed a proof for the gateway's challenge and is about to
\* send the retry; resp is still the challenge it answers
ClientSigned == client.pc = "retry" /\ client.url \in Routes

\* C27: the proof payAndFetch signs for a challenge of the gateway (which
\* supplies receiver, resource, nonce and expiry) carries these four
\* unchanged, a nonce of 0 included; the signature is the client's over
\* exactly the fields of the proof in the header, and from is the client's
\* address.
C27_ProofCarriesChallenge ==
  ClientSigned =>
    LET proof == client.header.body
        requirement == resp.requirement
    IN /\ client.header = encodePaymentHeader(proof)
       /\ proof.to = requirement.receiver
       /\ proof.resource = requirement.resource
       /\ proof.nonce = requirement.nonce
       /\ proof.expiry = requirement.expiry
       /\ proof.from = walletAddress("agent")
       /\ proof.signature =
            signTypedData("agent",
                          typedValue(proof.from, proof.to, proof.amount,
                                     proof.resource, proof.nonce, proof.expiry))

\* the part of C27 that holds: everything but the nonce of a challenge whose
\* nonce is 0
C27_ProofCarriesChallengeButNonceZero ==
  ClientSigned =>
    LET proof == client.header.body
        requirement == resp.requirement
    IN /\ proof.to = requirement.receiver
       /\ proof.resource = requirement.resource
       /\ requirement.nonce # 0 => proof.nonce = requirement.nonce
       /\ proof.expiry = requirement.expiry
       /\ proof.from = walletAddress("agent")
       /\ proof.signature =
            signTypedData("agent",
                          typedValue(proof.from, proof.to, proof.amount,
                                     proof.resource, proof.nonce, proof.expiry))

(***************************************************************************)
(* Claims about the amount and the resource of a proof                     *)
(***************************************************************************)
\* the middleware has just verified a proof that is neither expired nor a
\* replay
LastPastReplayCheck ==
  /\ last.op = "request"
  /\ last.called
  /\ ~last.expired
  /\ ~last.replayed

\* C28: a proof that passes the expiry and replay checks is rejected as
\* insufficient when its amount is below the route's, is not rejected for its
\* amount when it is equal or above, and is rejected when its resource is not
\* the route's; after acceptance the handler sees the proof's amount and the
\* proof's resource.
C28_AmountAndResourceBound ==
  /\ LastPastReplayCheck =>
       /\ last.amount < last.route.amount
            => (~last.valid /\ last.reason = "Insufficient payment")
       /\ last.amount >= last.route.amount
            => last.reason # "Insufficient payment"
       /\ last.resource # last.route.resource => ~last.valid
       /\ (last.amount >= last.route.amount
             /\ last.resource # last.route.resource)
            => last.reason = "Resource mismatch"
  /\ (last.op = "request" /\ last.valid) =>
       /\ last.amount >= last.route.amount
       /\ last.resource = last.route.resource
       /\ last.ctx.x402_amount = last.amount
       /\ last.ctx.service = last.resource

\* a proof that pays more than the route costs has just been accepted, and
\* the handler is given the amount of the proof
C28_Witness ==
  /\ LastPastReplayCheck
  /\ last.valid
  /\ last.amount > last.route.amount
  /\ last.ctx.pc = "next"
  /\ last.ctx.x402_amount = last.amount

(***************************************************************************)
(* Claims about the contract's read functions                              *)
(***************************************************************************)
\* the positions in payments of the records of agent a
positionsOf(a) == {i \in 1..Len(payments) : payments[i].agent = a}

\* C29: getPaymentsByAgent(a) returns exactly the records of a in commit
\* order; getAgentStats(a) returns (0, 0, 0, 0) when a has no record and
\* otherwise the timestamps of a's first and last records, with
\* firstPayment <= lastPayment; getRecentPayments(n) returns the last
\* min(n, total) records in commit order.
C29_ReadsAgreeWithRecords ==
  /\ \A a \in LedgerKeys :
       LET got == ledgerGetPaymentsByAgent(ledgerStorage, a)
           stats == ledgerGetAgentStats(ledgerStorage, a)
       IN /\ Len(got) = Cardinality(positionsOf(a))
          /\ \A k \in 1..Len(got) :
               \E i \in positionsOf(a) :
                 /\ got[k] = payments[i]
                 /\ Cardinality({j \in positionsOf(a) : j < i}) = k - 1
          /\ positionsOf(a) = {} =>
               stats = [totalSpent |-> 0, queryCount |-> 0, firstPayment |-> 0,
                        lastPayment |-> 0]
          /\ positionsOf(a) # {} =>
               /\ \A i \in positionsOf(a) :
                    /\ (\A j \in positionsOf(a) : i <= j)
                         => stats.firstPayment = payments[i].timestamp
                    /\ (\A j \in positionsOf(a) : j <= i)
                         => stats.lastPayment = payments[i].timestamp
               /\ stats.firstPayment <= stats.lastPayment
  /\ \A n \in 0..(MaxPayments + 1) :
       LET got == ledgerGetRecentPayments(ledgerStorage, n)
           total == Len(payments)
           m == IF n < total THEN n ELSE total
       IN /\ Len(got) = m
          /\ \A k \in 1..m : got[k] = payments[total - m + k]

\* two agents have logged one payment each, on different days: each read
\* returns its own record, and the most recent payment is the second
C29_Witness ==
  /\ Len(payments) = 2
  /\ payments[1].agent # payments[2].agent
  /\ payments[1].timestamp < payments[2].timestamp
  /\ ledgerGetPaymentsByAgent(ledgerStorage, payments[2].agent) = <<payments[2]>>
  /\ ledgerGetRecentPayments(ledgerStorage, 1) = <<payments[2]>>
  /\ ledgerGetAgentStats(ledgerStorage, payments[1].agent).lastPayment
       = payments[1].timestamp

(***************************************************************************)
(* Claims about overlapping commits to the in-memory fallback              *)
(***************************************************************************)
\* C30: however the backend's logPayment calls interleave at their awaits,
\* the fallback loses no update: the list holds one record per call that
\* committed to it, queryCount is their number and totalSpent the sum of
\* their amounts; firstPayment is the time of the first fallback commit and
\* is not written again, and lastPayment never decreases.
C30_NoLostUpdate ==
  /\ [](/\ inMemoryStats.queryCount = Len(inMemoryLedger)
        /\ inMemoryStats.totalSpent = sumAmounts(inMemoryLedger)
        /\ inMemoryStats.firstPayment =
             IF inMemoryLedger = <<>> THEN 0 ELSE inMemoryLedger[1].timestamp
        /\ inMemoryStats.lastPayment =
             IF inMemoryLedger = <<>> THEN 0
             ELSE inMemoryLedger[Len(inMemoryLedger)].timestamp)
  /\ [][/\ inMemoryStats'.lastPayment >= inMemoryStats.lastPayment
        /\ inMemoryStats.firstPayment # 0
             => inMemoryStats'.firstPayment = inMemoryStats.firstPayment
        /\ backendLast' # backendLast =>
             /\ inMemoryStats'.queryCount
                  = inMemoryStats.queryCount + backendLast'.inMemory
             /\ inMemoryStats'.totalSpent
                  = inMemoryStats.totalSpent
                      + backendLast'.inMemory * backendLast'.amount
             /\ ~backendLast'.onChain => backendLast'.inMemory = 1
        /\ backendLast' = backendLast => inMemoryStats' = inMemoryStats]_vars

\* two calls overlapped and both fell back: the call of the second record had
\* started (its txHash carries its start time) before the first record was
\* committed, it committed later, and the counters include both
C30_Witness ==
  /\ LastLogPayment
  /\ backendLast.inMemory = 1
  /\ Len(inMemoryLedger) = 2
  /\ inMemoryLedger[2].txHash = backendLast.txHash
  /\ \E started \in 0..MaxTime, serviceType \in ServiceTypes :
       /\ inMemoryLedger[2].txHash = serviceType \o "-" \o ToString(started)
       /\ started < inMemoryLedger[1].timestamp
  /\ inMemoryStats.queryCount = 2
  /\ inMemoryStats.totalSpent
       = inMemoryLedger[1].amount + inMemoryLedger[2].amount

====
